---- MODULE Spec2Model ----
(***************************************************************************)
(* Shape- and index-level model of the hierarchical feature extractors of  *)
(* pytorch-image-models: the HieraDet (SAM2) window partitioner and        *)
(* MultiScaleBlock, HieraDet construction / forward_intermediates /        *)
(* prune_intermediate_layers, and DaViT's PatchEmbed and forward_network.  *)
(*                                                                         *)
(* Tensors are modelled either with their data (a shape and the row-major  *)
(* flat sequence of elements, for the window partitioner) or by their      *)
(* shape alone (for the blocks and the models).                            *)
(***************************************************************************)
EXTENDS Integers, Sequences, FiniteSets, TLC

VARIABLES
    \* window partition / unpartition round trip
    wimpl,     \* whose partition: "hieradet" or "davit"
    wx,        \* the input feature map (B, H, W, C), with data
    wsize,     \* window_size
    wwin,      \* the windows returned by window_partition
    wpad,      \* (Hp, Wp) returned by window_partition
    wout,      \* the tensor returned by window_unpartition
    wpc,       \* "input" -> "partitioned" -> "done"
    \* one MultiScaleBlock and one call of its forward
    bcfg,      \* the block's constructor arguments
    bmul2,     \* twice the dim_mul its dim_out was computed with
    bx,        \* shape (B, H, W, C) of the input of forward
    bres,      \* what forward computed
    bpc,       \* "ready" -> "done"
    \* one HieraDet
    hcfg,      \* the constructor's arguments
    hm,        \* the model: blocks, stage_ends, q_pool_blocks, window_spec
    hcall,     \* the last call of forward_intermediates / prune_intermediate_layers
    hfwd,      \* the last call of forward_features on the model as it is
    hpc,       \* "new" -> "constructed" | "failed"
    \* one DaViT PatchEmbed and one call of its forward
    pecfg,     \* the constructor's arguments
    pex,       \* the input: its shape, the size argument, one H x W plane
    peres,     \* what forward returned
    pepadded,  \* the plane as handed to the convolution
    pepc,      \* "ready" -> "done"
    \* one DaViT and one call of forward_pyramid_features
    dcfg,      \* the constructor's arguments
    dm,        \* the model: num_stages, embed_dims, patch_embeds, stages
    dx,        \* shape (B, C, H, W) of the image of the call
    dfeatures, \* the list `features` of forward_network
    dsizes,    \* the list `sizes` of forward_network
    di,        \* the number of loop iterations of forward_network done
    douts,     \* the list forward_pyramid_features returned
    derr,      \* the exception the call raised, "" if none
    dpc,       \* "new" -> "constructed" | "failed" -> "loop" -> "done" | "raised"
    \* one attention module and one call of its forward
    acfg,      \* the module: its class and constructor arguments
    ax,        \* the shape of the input of forward
    ares,      \* what forward computed
    asoft,     \* the axes of the attention matrix and of its softmax
    apc,       \* "ready" -> "done"
    \* one DaViT block (SpatialBlock or ChannelBlock) and one call of its forward
    kcfg,      \* the block as constructed
    kx,        \* the shape (B, N, C) of the tokens of the call
    ksize,     \* the size argument (H, W) of the call
    kres,      \* what forward computed
    kpc,       \* "ready" -> "done"
    \* DaViT checkpoint filter
    fsd,       \* the state dict handed to checkpoint_filter_fn
    fout,      \* what the filter returns for fsd
    fout2,     \* what the filter returns for fout
    fpc,       \* "idle", "loaded", "filtered", "refiltered"
    \* PrefetchLoader.__iter__
    lbatches,  \* the batches of the underlying loader, in its order
    lerase,    \* whether random erasing is configured
    lidx,      \* how many batches have been drawn from the underlying loader
    lfirst,    \* the local first
    lcur,      \* the locals input, target (NoneVal while unbound)
    lnext,     \* the locals next_input, next_target
    lstream,   \* the work enqueued on self.stream, oldest first
    lwaited,   \* how much of lstream the current stream has been made to wait on
    lout,      \* what the generator has yielded so far
    lpc,       \* the generator's position
    \* create_optimizer
    oargs,     \* args: opt, weight_decay, lr
    omodel,    \* the model's named parameters, in order
    ofilter,   \* filter_bias_and_bn
    oopt,      \* the optimizer returned, or the error raised
    opc        \* "idle", "ready", "created"

winVars == <<wimpl, wx, wsize, wwin, wpad, wout, wpc>>
blkVars == <<bcfg, bmul2, bx, bres, bpc>>
hieraVars == <<hcfg, hm, hcall, hfwd, hpc>>
patchVars == <<pecfg, pex, peres, pepadded, pepc>>
davitVars == <<dcfg, dm, dx, dfeatures, dsizes, di, douts, derr, dpc>>

attnVars == <<acfg, ax, ares, asoft, apc>>

dblkVars == <<kcfg, kx, ksize, kres, kpc>>

filterVars == <<fsd, fout, fout2, fpc>>

loaderVars == <<lbatches, lerase, lidx, lfirst, lcur, lnext, lstream, lwaited, lout, lpc>>

optVars == <<oargs, omodel, ofilter, oopt, opc>>

vars == <<winVars, blkVars, hieraVars, patchVars, davitVars, attnVars, dblkVars, filterVars, loaderVars, optVars>>

----------------------------------------------------------------------------
(* Bounds of the model *)

MaxB == 2        \* batch sizes 1..MaxB
MaxH == 4        \* feature-map heights 1..MaxH
MaxW == 4        \* feature-map widths 1..MaxW
MaxC == 2        \* channels 1..MaxC (tensors with data)
MaxWs == 3       \* window sizes 1..MaxWs (tensors with data)
MaxBlkB == 2     \* batch sizes 1..MaxBlkB of a block's input
MaxBlkHW == 6    \* heights and widths 1..MaxBlkHW of a block's input
MaxBlkWs == 4    \* window sizes 0..MaxBlkWs of a block
MaxDim == 3      \* channel widths 1..MaxDim of a block's input
MaxHeads == 2    \* head counts 1..MaxHeads
MaxStages == 3   \* HieraDet: 1..MaxStages stages
MaxIdx == 3      \* requested feature indices range over -1..MaxIdx
MaxPatchHW == 6  \* PatchEmbed: heights and widths 1..MaxPatchHW
MaxDStages == 4  \* DaViT: 1..MaxDStages stages
MaxDImg == 9     \* DaViT: image heights and widths 1..MaxDImg

----------------------------------------------------------------------------
(* Python / torch primitives *)

NoneVal == <<>>

RECURSIVE Prod(_)
Prod(s) == IF s = <<>> THEN 1 ELSE s[1] * Prod(Tail(s))

\* row-major stride of dimension k of a shape
Stride(shape, k) == Prod(SubSeq(shape, k + 1, Len(shape)))

\* coordinate along dimension k of the 0-based flat index i
Coord(i, shape, k) == (i \div Stride(shape, k)) % shape[k]

RECURSIVE SumTo(_, _)
SumTo(f, n) == IF n = 0 THEN 0 ELSE f[n] + SumTo(f, n - 1)

\* torch.Tensor.view / reshape on a contiguous tensor: same flat data
View(t, shape) == [shape |-> shape, data |-> t.data]

\* torch.Tensor.permute(perm).contiguous(), perm given 1-based
Permute(t, perm) ==
    LET n == Len(perm)
        ns == [k \in 1..n |-> t.shape[perm[k]]]
        ost == [k \in 1..n |-> Stride(t.shape, perm[k])]
        nst == [k \in 1..n |-> Stride(ns, k)]
        src(j) == SumTo([k \in 1..n |-> ((j \div nst[k]) % ns[k]) * ost[k]], n)
    IN  [shape |-> ns,
         data |-> [j \in 1..Prod(ns) |-> t.data[src(j - 1) + 1]]]

\* F.pad(x, (c_l, c_r, w_l, w_r, h_l, h_r)) of a (B, H, W, C) tensor, zero fill
F_pad(t, p) ==
    LET ns == <<t.shape[1], t.shape[2] + p[5] + p[6],
                t.shape[3] + p[3] + p[4], t.shape[4] + p[1] + p[2]>>
        at(j) ==
            LET b == Coord(j, ns, 1)
                h == Coord(j, ns, 2) - p[5]
                w == Coord(j, ns, 3) - p[3]
                c == Coord(j, ns, 4) - p[1]
            IN  IF /\ h >= 0 /\ h < t.shape[2]
                   /\ w >= 0 /\ w < t.shape[3]
                   /\ c >= 0 /\ c < t.shape[4]
                THEN t.data[b * Stride(t.shape, 1) + h * Stride(t.shape, 2)
                            + w * Stride(t.shape, 3) + c + 1]
                ELSE 0
    IN  [shape |-> ns, data |-> [j \in 1..Prod(ns) |-> at(j - 1)]]

Min(a, b) == IF a < b THEN a ELSE b

\* x[:, :H, :W, :].contiguous()
Crop(t, H, W) ==
    LET ns == <<t.shape[1], Min(H, t.shape[2]), Min(W, t.shape[3]), t.shape[4]>>
        at(j) == t.data[Coord(j, ns, 1) * Stride(t.shape, 1)
                        + Coord(j, ns, 2) * Stride(t.shape, 2)
                        + Coord(j, ns, 3) * Stride(t.shape, 3)
                        + Coord(j, ns, 4) + 1]
    IN  [shape |-> ns, data |-> [j \in 1..Prod(ns) |-> at(j - 1)]]

----------------------------------------------------------------------------
(* hieradet_sam2.py: window_partition, window_unpartition *)

pad_amount(n, window_size) == (window_size - (n % window_size)) % window_size

\* mutant: the padding goes on the top and on the left
window_partition_padtopleft(x, window_size) ==
    LET B == x.shape[1]
        H == x.shape[2]
        W == x.shape[3]
        C == x.shape[4]
        pad_h == pad_amount(H, window_size)
        pad_w == pad_amount(W, window_size)
        xp == F_pad(x, <<0, 0, pad_w, 0, pad_h, 0>>)
        Hp == H + pad_h
        Wp == W + pad_w
        xv == View(xp, <<B, Hp \div window_size, window_size,
                         Wp \div window_size, window_size, C>>)
        xq == Permute(xv, <<1, 2, 4, 3, 5, 6>>)
    IN  [windows |-> View(xq, <<Prod(xq.shape) \div (window_size * window_size * C),
                                window_size, window_size, C>>),
         pad_hw |-> <<Hp, Wp>>]

window_partition(x, window_size) ==
    LET B == x.shape[1]
        H == x.shape[2]
        W == x.shape[3]
        C == x.shape[4]
        pad_h == pad_amount(H, window_size)
        pad_w == pad_amount(W, window_size)
        xp == F_pad(x, <<0, 0, 0, pad_w, 0, pad_h>>)
        Hp == H + pad_h
        Wp == W + pad_w
        xv == View(xp, <<B, Hp \div window_size, window_size,
                         Wp \div window_size, window_size, C>>)
        xq == Permute(xv, <<1, 2, 4, 3, 5, 6>>)
    IN  [windows |-> View(xq, <<Prod(xq.shape) \div (window_size * window_size * C),
                                window_size, window_size, C>>),
         pad_hw |-> <<Hp, Wp>>]

\* mutant: the windows are laid out without the inverse permutation
window_unpartition_noperm(windows, window_size, pad_hw, hw) ==
    LET Hp == pad_hw[1]
        Wp == pad_hw[2]
        B == windows.shape[1] \div (((Hp * Wp) \div window_size) \div window_size)
        Cc == Prod(windows.shape) \div (B * Hp * Wp)
    IN  Crop(View(windows, <<B, Hp, Wp, Cc>>), hw[1], hw[2])

window_unpartition(windows, window_size, pad_hw, hw) ==
    LET Hp == pad_hw[1]
        Wp == pad_hw[2]
        H == hw[1]
        W == hw[2]
        B == windows.shape[1] \div (((Hp * Wp) \div window_size) \div window_size)
        Cc == Prod(windows.shape)
                \div (B * (Hp \div window_size) * (Wp \div window_size)
                        * window_size * window_size)
        xv == View(windows, <<B, Hp \div window_size, Wp \div window_size,
                              window_size, window_size, Cc>>)
        xq == View(Permute(xv, <<1, 2, 4, 3, 5, 6>>), <<B, Hp, Wp, Cc>>)
    IN  Crop(xq, H, W)

----------------------------------------------------------------------------
(* Shape-level torch primitives.  A shape computation yields a record     *)
(* [err, shape]; err = "" when the operation succeeds, otherwise the kind *)
(* of exception raised.                                                    *)

Ok(shape) == [err |-> "", shape |-> shape]
Fail(kind) == [err |-> kind, shape |-> <<>>]

\* tensor.view / reshape with one inferred (-1) dimension at position k of
\* the requested shape (the entry at k is ignored)
ViewInfer(shape, req, k) ==
    LET known == Prod([j \in 1..Len(req) |-> IF j = k THEN 1 ELSE req[j]])
        total == Prod(shape)
    IN  IF known = 0 \/ total % known # 0
        THEN Fail("view")
        ELSE Ok([j \in 1..Len(req) |-> IF j = k THEN total \div known ELSE req[j]])

\* nn.MaxPool2d(kernel_size=k, stride=k, ceil_mode=False) on one axis of
\* length n; 0 stands for "output size is too small"
MaxPoolOut(n, k) == ((n - k) \div k) + 1

\* broadcasting of two shapes of the same rank in an element-wise add
Broadcast(a, b) ==
    IF \A k \in 1..Len(a) : a[k] = b[k] \/ a[k] = 1 \/ b[k] = 1
    THEN Ok([k \in 1..Len(a) |-> IF a[k] = 1 THEN b[k] ELSE a[k]])
    ELSE Fail("broadcast")

----------------------------------------------------------------------------
(* hieradet_sam2.py at shape level *)

\* do_pool(x, pool): pool is None (<<>>) or the (kh, kw) of the max-pool
do_pool(x, pool) ==
    IF pool = NoneVal THEN Ok(x)
    ELSE LET h == MaxPoolOut(x[2], pool[1])
             w == MaxPoolOut(x[3], pool[2])
         IN  IF h <= 0 \/ w <= 0 THEN Fail("pool") ELSE Ok(<<x[1], h, w, x[4]>>)

\* window_partition on shapes: the windows' shape and (Hp, Wp)
window_partition_shape(x, window_size) ==
    LET Hp == x[2] + pad_amount(x[2], window_size)
        Wp == x[3] + pad_amount(x[3], window_size)
        xv == <<x[1], Hp \div window_size, window_size,
                Wp \div window_size, window_size, x[4]>>
    IN  [windows |-> ViewInfer(xv, <<0, window_size, window_size, x[4]>>, 1),
         pad_hw |-> <<Hp, Wp>>]

\* the number of windows per sample window_unpartition divides by
windows_per_sample(window_size, pad_hw) ==
    ((pad_hw[1] * pad_hw[2]) \div window_size) \div window_size

\* window_unpartition on shapes
window_unpartition_shape(windows, window_size, pad_hw, hw) ==
    LET Hp == pad_hw[1]
        Wp == pad_hw[2]
        per == windows_per_sample(window_size, pad_hw)
        B == windows[1] \div per
        v1 == ViewInfer(windows, <<B, Hp \div window_size, Wp \div window_size,
                                   window_size, window_size, 0>>, 6)
        v2 == ViewInfer(v1.shape, <<B, Hp, Wp, 0>>, 4)
    IN  IF per = 0 THEN Fail("zerodiv")
        ELSE IF v1.err # "" THEN v1
        ELSE IF v2.err # "" THEN v2
        ELSE Ok(<<v2.shape[1], Min(hw[1], Hp), Min(hw[2], Wp), v2.shape[4]>>)

\* MultiScaleAttention.forward on a (B, H, W, dim) input
MultiScaleAttention_forward(cfg, x) ==
    LET B == x[1]
        H == x[2]
        W == x[3]
        \* self.qkv(x).reshape(B, H * W, 3, self.num_heads, -1)
        qkv == IF x[4] # cfg.dim THEN Fail("linear")
               ELSE ViewInfer(<<B, H, W, 3 * cfg.dim_out>>,
                              <<B, H * W, 3, cfg.num_heads, 0>>, 5)
        hd == qkv.shape[5]
        \* q = do_pool(q.reshape(B, H, W, -1), self.q_pool)
        q == do_pool(<<B, H, W, cfg.num_heads * hd>>, cfg.q_stride)
    IN  IF qkv.err # "" THEN qkv
        ELSE IF q.err # "" THEN q
        \* SDPA keeps the queries' token count; reshape(B, H, W, -1); proj
        ELSE Ok(<<B, q.shape[2], q.shape[3], cfg.num_heads * hd>>)

(* MultiScaleBlock.forward as the composition of its steps.  The state of *)
(* a call: the current x, the shortcut, the locals window_size, feat_size *)
(* and pad_hw, and for the record the steps taken so far, the operations  *)
(* that made the current x (xsrc) and the shortcut (sc_src) out of the    *)
(* block's input, the number of windows the partition produced and the    *)
(* number per sample the unpartition divides by.                           *)

Raise(st, kind) == [st EXCEPT !.err = kind]
Step(st, name) == [st EXCEPT !.steps = Append(@, name)]

\* shortcut = x
Blk_Input(cfg, x) ==
    [err |-> "", x |-> x, xsrc |-> <<"input">>,
     shortcut |-> x, sc_src |-> <<"input">>, sc_pooled |-> FALSE, q_pooled |-> FALSE,
     window_size |-> 0, feat_size |-> <<0, 0>>, pad_hw |-> <<0, 0>>,
     nwin |-> 0, per |-> 0, attn |-> <<>>, steps |-> <<"Input">>]

\* x = self.norm1(x)
Blk_Norm1(cfg, st) ==
    IF st.err # "" THEN st
    ELSE IF st.x[4] # cfg.dim THEN Raise(st, "norm")
    ELSE Step([st EXCEPT !.xsrc = Append(@, "norm1")], "PreNorm1")

\* mutant: the projection is taken of the block's input
Blk_Shortcut_of_input(cfg, st) ==
    IF st.err # "" THEN st
    ELSE IF cfg.dim # cfg.dim_out
    THEN LET p == do_pool(<<st.x[1], st.x[2], st.x[3], cfg.dim_out>>, cfg.q_stride)
         IN  IF p.err # "" THEN Raise(st, p.err)
             ELSE Step([st EXCEPT !.shortcut = p.shape,
                                  !.sc_src = st.sc_src \o <<"proj">>
                                      \o (IF cfg.q_stride # NoneVal THEN <<"pool">> ELSE <<>>),
                                  !.sc_pooled = (cfg.q_stride # NoneVal)],
                       "ShortcutCompute")
    ELSE Step(st, "ShortcutCompute")

\* if self.dim != self.dim_out: shortcut = do_pool(self.proj(x), self.pool),
\* x being the output of self.norm1
Blk_Shortcut(cfg, st) ==
    IF st.err # "" THEN st
    ELSE IF cfg.dim # cfg.dim_out
    THEN LET p == do_pool(<<st.x[1], st.x[2], st.x[3], cfg.dim_out>>, cfg.q_stride)
         IN  IF p.err # "" THEN Raise(st, p.err)
             ELSE Step([st EXCEPT !.shortcut = p.shape,
                                  !.sc_src = st.xsrc \o <<"proj">>
                                      \o (IF cfg.q_stride # NoneVal THEN <<"pool">> ELSE <<>>),
                                  !.sc_pooled = (cfg.q_stride # NoneVal)],
                       "ShortcutCompute")
    ELSE Step(st, "ShortcutCompute")

\* window_size = self.window_size; feat_size = x.shape[1:3]; pad_hw = 0, 0
\* if window_size > 0: x, pad_hw = window_partition(x, window_size)
Blk_Window(cfg, st) ==
    IF st.err # "" THEN st
    ELSE LET s0 == [st EXCEPT !.window_size = cfg.window_size,
                              !.feat_size = <<st.x[2], st.x[3]>>,
                              !.pad_hw = <<0, 0>>]
         IN  IF cfg.window_size > 0
             THEN LET r == window_partition_shape(st.x, cfg.window_size)
                  IN  IF r.windows.err # "" THEN Raise(s0, r.windows.err)
                      ELSE Step([s0 EXCEPT !.x = r.windows.shape,
                                           !.pad_hw = r.pad_hw,
                                           !.nwin = r.windows.shape[1]],
                                "Windowing")
             ELSE s0

\* x = self.attn(x)
Blk_Attn(cfg, st) ==
    IF st.err # "" THEN st
    ELSE LET a == MultiScaleAttention_forward(cfg, st.x)
         IN  IF a.err # "" THEN Raise(st, a.err)
             ELSE Step([st EXCEPT !.x = a.shape, !.q_pooled = (cfg.q_stride # NoneVal)],
                       "Attention")

\* mutant: the window size is not divided by the stride
Blk_QStride_samews(cfg, st) ==
    IF st.err # "" \/ cfg.q_stride = NoneVal THEN st
    ELSE LET ws == cfg.window_size
             fs == <<st.shortcut[2], st.shortcut[3]>>
         IN  IF ws = 0 THEN Raise(st, "zerodiv")
             ELSE [st EXCEPT !.window_size = ws, !.feat_size = fs,
                             !.pad_hw = <<fs[1] + pad_amount(fs[1], ws),
                                          fs[2] + pad_amount(fs[2], ws)>>]

\* if self.q_stride: window_size = self.window_size // self.q_stride[0];
\* feat_size = shortcut.shape[1:3]; pad_hw = feat_size rounded up
Blk_QStride(cfg, st) ==
    IF st.err # "" \/ cfg.q_stride = NoneVal THEN st
    ELSE LET ws == cfg.window_size \div cfg.q_stride[1]
             fs == <<st.shortcut[2], st.shortcut[3]>>
         IN  IF ws = 0 THEN Raise(st, "zerodiv")
             ELSE [st EXCEPT !.window_size = ws, !.feat_size = fs,
                             !.pad_hw = <<fs[1] + pad_amount(fs[1], ws),
                                          fs[2] + pad_amount(fs[2], ws)>>]

\* if self.window_size > 0: x = window_unpartition(x, window_size, pad_hw, feat_size)
Blk_Unwindow(cfg, st) ==
    IF st.err # "" THEN st
    ELSE IF cfg.window_size > 0
    THEN LET u == window_unpartition_shape(st.x, st.window_size, st.pad_hw, st.feat_size)
             s0 == [st EXCEPT !.per = windows_per_sample(st.window_size, st.pad_hw)]
         IN  IF u.err # "" THEN Raise(s0, u.err)
             ELSE Step([s0 EXCEPT !.x = u.shape], "Unwindow")
    ELSE st

\* x = shortcut + self.drop_path(x)
Blk_Add1(cfg, st) ==
    IF st.err # "" THEN st
    ELSE LET r == Broadcast(st.shortcut, st.x)
         IN  IF r.err # "" THEN Raise([st EXCEPT !.attn = st.x], r.err)
             ELSE Step([st EXCEPT !.attn = st.x, !.x = r.shape], "ResidualAdd1")

\* x = x + self.drop_path(self.mlp(self.norm2(x)))
Blk_Mlp(cfg, st) ==
    IF st.err # "" THEN st
    ELSE IF st.x[4] # cfg.dim_out THEN Raise(st, "norm")
    ELSE [st EXCEPT !.steps = @ \o <<"PreNorm2", "MLP", "ResidualAdd2", "Output">>]

MultiScaleBlock_forward(cfg, x) ==
    Blk_Mlp(cfg, Blk_Add1(cfg, Blk_Unwindow(cfg, Blk_QStride(cfg,
        Blk_Attn(cfg, Blk_Window(cfg, Blk_Shortcut(cfg, Blk_Norm1(cfg,
            Blk_Input(cfg, x)))))))))

\* dim_out = int(embed_dim * dim_mul) at a stage change, dim_mul = mul2 / 2
stage_dim_out(embed_dim, mul2) == (embed_dim * mul2) \div 2

----------------------------------------------------------------------------
(* hieradet_sam2.py: HieraDet *)

RECURSIVE SumSeq(_)
SumSeq(s) == IF s = <<>> THEN 0 ELSE s[1] + SumSeq(Tail(s))

InSeq(v, s) == \E k \in 1..Len(s) : s[k] = v

\* int(n * mul), mul = mul2 / 2
int_mul(n, mul2) == (n * mul2) \div 2

\* self.stage_ends = [sum(stages[:i]) - 1 for i in range(1, len(stages) + 1)]
stage_ends_of(stages) == [i \in 1..Len(stages) |-> SumSeq(SubSeq(stages, 1, i)) - 1]

\* self.q_pool_blocks = [x + 1 for x in self.stage_ends[:-1]][:q_pool]
q_pool_blocks_of(stage_ends, q_pool) ==
    LET all == [k \in 1..(Len(stage_ends) - 1) |-> stage_ends[k] + 1]
    IN  SubSeq(all, 1, Min(q_pool, Len(all)))

\* torch.linspace(0, drop_path_rate, steps): entry i (from 0) is
\* drop_path_rate * i / (steps - 1), kept as the fraction <<i, steps - 1>>
\* of drop_path_rate; the one entry of a schedule of one step is 0
linspace(steps) ==
    [k \in 1..steps |-> IF steps = 1 THEN <<0, 1>> ELSE <<k - 1, steps - 1>>]

\* mutant: the width and the head count change at the stage end itself
RECURSIVE build_blocks_at_end(_, _, _, _, _, _, _)
build_blocks_at_end(cfg, ends, qblocks, i, embed_dim, num_heads, cur_stage) ==
    IF i >= SumSeq(cfg.stages) THEN <<>>
    ELSE LET ws0 == cfg.window_spec[Min(cur_stage + 1, Len(cfg.window_spec))]
             window_size == IF i \in cfg.global_att_blocks THEN 0 ELSE ws0
             change == InSeq(i, ends)
             dim_out == IF change THEN int_mul(embed_dim, cfg.dim_mul2) ELSE embed_dim
             heads == IF change THEN int_mul(num_heads, cfg.head_mul2) ELSE num_heads
             stage == IF change THEN cur_stage + 1 ELSE cur_stage
             block == [dim |-> embed_dim, dim_out |-> dim_out, num_heads |-> heads,
                       drop_path |-> linspace(SumSeq(cfg.stages))[i + 1],
                       q_stride |-> IF InSeq(i, qblocks) THEN cfg.q_stride ELSE NoneVal,
                       window_size |-> window_size]
         IN  <<block>> \o build_blocks_at_end(cfg, ends, qblocks, i + 1, dim_out, heads, stage)

\* mutant: the window size is read after cur_stage is incremented
RECURSIVE build_blocks_nolag(_, _, _, _, _, _, _)
build_blocks_nolag(cfg, ends, qblocks, i, embed_dim, num_heads, cur_stage) ==
    IF i >= SumSeq(cfg.stages) THEN <<>>
    ELSE LET change == InSeq(i - 1, ends)
             dim_out == IF change THEN int_mul(embed_dim, cfg.dim_mul2) ELSE embed_dim
             heads == IF change THEN int_mul(num_heads, cfg.head_mul2) ELSE num_heads
             stage == IF change THEN cur_stage + 1 ELSE cur_stage
             ws0 == cfg.window_spec[stage + 1]
             window_size == IF i \in cfg.global_att_blocks THEN 0 ELSE ws0
             block == [dim |-> embed_dim, dim_out |-> dim_out, num_heads |-> heads,
                       drop_path |-> linspace(SumSeq(cfg.stages))[i + 1],
                       q_stride |-> IF InSeq(i, qblocks) THEN cfg.q_stride ELSE NoneVal,
                       window_size |-> window_size]
         IN  <<block>> \o build_blocks_nolag(cfg, ends, qblocks, i + 1, dim_out, heads, stage)

\* the loop "for i in range(depth)" of HieraDet.__init__, from block i on;
\* cur_stage is 0-based as in the source, blocks are numbered from 0
RECURSIVE build_blocks(_, _, _, _, _, _, _)
build_blocks(cfg, ends, qblocks, i, embed_dim, num_heads, cur_stage) ==
    IF i >= SumSeq(cfg.stages) THEN <<>>
    ELSE LET ws0 == cfg.window_spec[cur_stage + 1]
             window_size == IF i \in cfg.global_att_blocks THEN 0 ELSE ws0
             change == InSeq(i - 1, ends)
             dim_out == IF change THEN int_mul(embed_dim, cfg.dim_mul2) ELSE embed_dim
             heads == IF change THEN int_mul(num_heads, cfg.head_mul2) ELSE num_heads
             stage == IF change THEN cur_stage + 1 ELSE cur_stage
             block == [dim |-> embed_dim, dim_out |-> dim_out, num_heads |-> heads,
                       drop_path |-> linspace(SumSeq(cfg.stages))[i + 1],
                       q_stride |-> IF InSeq(i, qblocks) THEN cfg.q_stride ELSE NoneVal,
                       window_size |-> window_size]
         IN  <<block>> \o build_blocks(cfg, ends, qblocks, i + 1, dim_out, heads, stage)

\* cur_stage once block i is built: incremented at every block up to i
\* whose predecessor is a stage end
cur_stage_at(ends, i) == Cardinality({k \in 0..i : InSeq(k - 1, ends)})

\* if i in self.stage_ends: self.feature_info += [dict(num_chs=dim_out,
\*     reduction=2**(cur_stage+2), module=f'blocks.{self.stage_ends[cur_stage]}')]
RECURSIVE build_feature_info(_, _, _)
build_feature_info(ends, blocks, i) ==
    IF i >= Len(blocks) THEN <<>>
    ELSE (IF InSeq(i, ends)
          THEN <<[num_chs |-> blocks[i + 1].dim_out,
                  reduction |-> 2 ^ (cur_stage_at(ends, i) + 2),
                  module |-> <<"blocks", ends[cur_stage_at(ends, i) + 1]>>]>>
          ELSE <<>>) \o build_feature_info(ends, blocks, i + 1)

\* the object as the loop of __init__ leaves it
HieraDet_built(ends, qblocks, blocks) ==
    [ok |-> TRUE, blocks |-> blocks, stage_ends |-> ends, q_pool_blocks |-> qblocks,
     feature_info |-> build_feature_info(ends, blocks, 0)]

\* a constructor that raised leaves no object
HieraDet_failed ==
    [ok |-> FALSE, blocks |-> <<>>, stage_ends |-> <<>>, q_pool_blocks |-> <<>>,
     feature_info |-> <<>>]

\* mutant: the bound on q_pool is not asserted
HieraDet_init_anyqpool(cfg) ==
    LET ends == stage_ends_of(cfg.stages)
        qblocks == q_pool_blocks_of(ends, cfg.q_pool)
    IN  IF Len(cfg.stages) # Len(cfg.window_spec) THEN HieraDet_failed
        ELSE HieraDet_built(ends, qblocks,
                build_blocks(cfg, ends, qblocks, 0, cfg.embed_dim, cfg.num_heads, 0))

\* HieraDet.__init__: the two assertions, then the blocks
HieraDet_init(cfg) ==
    LET ends == stage_ends_of(cfg.stages)
        qblocks == q_pool_blocks_of(ends, cfg.q_pool)
    IN  IF Len(cfg.stages) # Len(cfg.window_spec) THEN HieraDet_failed
        ELSE IF ~(0 <= cfg.q_pool /\ cfg.q_pool <= Len(ends) - 1) THEN HieraDet_failed
        ELSE HieraDet_built(ends, qblocks,
                build_blocks(cfg, ends, qblocks, 0, cfg.embed_dim, cfg.num_heads, 0))

\* nn.Conv2d output length on one axis; <= 0 when the kernel does not fit
ConvOut(n, k, stride, pad) == ((n + 2 * pad - k) \div stride) + 1

PatchKernel == 7
PatchStride == 4
PatchPadding == 3

\* HieraPatchEmbed.forward on a (B, in_chans, H, W) image: (B, h, w, embed_dim)
HieraPatchEmbed_forward(cfg, img) ==
    LET h == ConvOut(img[3], PatchKernel, PatchStride, PatchPadding)
        w == ConvOut(img[4], PatchKernel, PatchStride, PatchPadding)
    IN  IF h <= 0 \/ w <= 0 THEN Fail("conv") ELSE Ok(<<img[1], h, w, cfg.embed_dim>>)

\* HieraDet._pos_embed: the global bias interpolated to (h, w) plus the
\* window bias tiled (h // ws0, w // ws0) times, added to x
pos_embed_forward(cfg, x) ==
    LET h == x[2]
        w == x[3]
        ws0 == cfg.window_spec[1]
        pos == <<1, cfg.embed_dim, h, w>>
        tiled == <<1, cfg.embed_dim, ws0 * (h \div ws0), ws0 * (w \div ws0)>>
        sum == Broadcast(pos, tiled)
    IN  IF sum.err # "" THEN sum
        ELSE Broadcast(x, <<sum.shape[1], sum.shape[3], sum.shape[4], sum.shape[2]>>)

(* Feature selection.  indices is None ("all"), an int n ("last n") or a  *)
(* list of indices, each possibly negative:                                *)
(*   [kind |-> "none" | "int" | "list", n |-> int, l |-> list]             *)

IdxNone == [kind |-> "none", n |-> 0, l |-> <<>>]
IdxInt(n) == [kind |-> "int", n |-> n, l |-> <<>>]
IdxList(l) == [kind |-> "list", n |-> 0, l |-> l]

RECURSIVE MaxSeq(_)
MaxSeq(s) == IF Len(s) = 1 THEN s[1]
             ELSE LET m == MaxSeq(Tail(s)) IN IF s[1] > m THEN s[1] ELSE m

\* feature_take_indices(num_features, indices): the selected indices,
\* normalised to 0..num_features-1, and the largest of them; an index out
\* of range is an error
feature_take_indices(num_features, indices) ==
    LET n == IF indices.kind = "none" THEN num_features ELSE indices.n
        lastn == [k \in 1..n |-> num_features - n + (k - 1)]
        norm == [k \in 1..Len(indices.l) |->
                    IF indices.l[k] < 0 THEN num_features + indices.l[k]
                    ELSE indices.l[k]]
    IN  IF indices.kind \in {"none", "int"}
        THEN IF 0 < n /\ n <= num_features
             THEN [err |-> "", take |-> lastn, max |-> MaxSeq(lastn)]
             ELSE [err |-> "range", take |-> <<>>, max |-> -1]
        ELSE IF \E k \in 1..Len(norm) : ~(0 <= norm[k] /\ norm[k] < num_features)
             THEN [err |-> "range", take |-> <<>>, max |-> -1]
             ELSE IF norm = <<>>
             THEN [err |-> "empty", take |-> <<>>, max |-> -1]
             ELSE [err |-> "", take |-> norm, max |-> MaxSeq(norm)]

\* the selection of forward_intermediates and prune_intermediate_layers:
\* over the stage ends (coarse) or over the blocks
select_indices(m, indices, coarse) ==
    LET sel == feature_take_indices(IF coarse THEN Len(m.stage_ends) ELSE Len(m.blocks),
                                    indices)
    IN  IF sel.err # "" THEN [err |-> sel.err, sel |-> <<>>, take |-> <<>>, max_index |-> -1]
        ELSE IF coarse
        THEN [err |-> "", sel |-> sel.take,
              take |-> [k \in 1..Len(sel.take) |-> m.stage_ends[sel.take[k] + 1]],
              max_index |-> m.stage_ends[sel.max + 1]]
        ELSE [err |-> "", sel |-> sel.take, take |-> sel.take, max_index |-> sel.max]

\* blocks[:n]
Slice(blocks, n) == SubSeq(blocks, 1, Min(n, Len(blocks)))

\* for i, blk in enumerate(blocks): x = blk(x); if i in take_indices: append;
\* invoked counts the blocks called, a block that raises included
RECURSIVE run_blocks(_, _, _, _, _)
loop_body(blocks, i, x, take, inter, st) ==
    IF st.err # ""
    THEN [err |-> st.err, x |-> x, invoked |-> i + 1, inter |-> inter]
    ELSE run_blocks(blocks, i + 1, st.x, take,
                    IF InSeq(i, take)
                    THEN Append(inter, [blk |-> i, shape |-> st.x])
                    ELSE inter)

run_blocks(blocks, i, x, take, inter) ==
    IF i >= Len(blocks) THEN [err |-> "", x |-> x, invoked |-> i, inter |-> inter]
    ELSE loop_body(blocks, i, x, take, inter, MultiScaleBlock_forward(blocks[i + 1], x))

NoRun == [err |-> "", x |-> <<>>, invoked |-> 0, inter |-> <<>>]

\* the outcome of a call: the selection and the run of the blocks; a
\* failure of the selection, of the patch embedding or of the position
\* embedding ends the call before any block runs
call_result(s, pe, pos, blocks) ==
    IF s.err # "" THEN [sel |-> s, run |-> [NoRun EXCEPT !.err = s.err]]
    ELSE IF pe.err # "" THEN [sel |-> s, run |-> [NoRun EXCEPT !.err = pe.err]]
    ELSE IF pos.err # "" THEN [sel |-> s, run |-> [NoRun EXCEPT !.err = pos.err]]
    ELSE [sel |-> s, run |-> run_blocks(blocks, 0, pos.shape, s.take, <<>>)]

\* x = self.patch_embed(x); x = self._pos_embed(x)
embed(cfg, pe) == IF pe.err # "" THEN pe ELSE pos_embed_forward(cfg, pe.shape)

\* blocks = self.blocks if not stop_early else self.blocks[:max_index + 1]
blocks_to_run(m, s, stop_early) ==
    IF ~stop_early THEN m.blocks ELSE Slice(m.blocks, s.max_index + 1)

fi_selected(m, cfg, stop_early, s, pe) ==
    call_result(s, pe, embed(cfg, pe), blocks_to_run(m, s, stop_early))

\* HieraDet.forward_intermediates(x, indices, stop_early=..., coarse=...)
forward_intermediates(m, cfg, img, indices, stop_early, coarse) ==
    fi_selected(m, cfg, stop_early, select_indices(m, indices, coarse),
                HieraPatchEmbed_forward(cfg, img))

\* mutant: the sliced blocks are stored on the model
forward_intermediates_self_sliced(m, s, stop_early) ==
    IF s.err # "" THEN m ELSE [m EXCEPT !.blocks = blocks_to_run(m, s, stop_early)]

\* the model after forward_intermediates: the selection and the sliced
\* blocks are bound to local names (take_indices, max_index, blocks,
\* intermediates), no attribute of self is assigned
forward_intermediates_self(m, s, stop_early) == m

\* x = self.patch_embed(x); x = self._pos_embed(x); every block in order
features_result(pe, pos, blocks) ==
    IF pe.err # "" THEN [NoRun EXCEPT !.err = pe.err]
    ELSE IF pos.err # "" THEN [NoRun EXCEPT !.err = pos.err]
    ELSE run_blocks(blocks, 0, pos.shape, <<>>, <<>>)

features_embedded(m, cfg, pe) == features_result(pe, embed(cfg, pe), m.blocks)

\* HieraDet.forward_features(x), which forward hands to the head
forward_features(m, cfg, img) ==
    features_embedded(m, cfg, HieraPatchEmbed_forward(cfg, img))

\* HieraDet.prune_intermediate_layers(indices, coarse=...): the model after
\* the call (unchanged when the selection raises)
prune_intermediate_layers(m, indices, coarse) ==
    LET s == select_indices(m, indices, coarse)
    IN  IF s.err # "" THEN m
        ELSE [m EXCEPT !.blocks = Slice(m.blocks, s.max_index + 1)]

----------------------------------------------------------------------------
(* davit.py: PatchEmbed *)

\* PatchEmbed.__init__: the convolution's kernel and padding and the width
\* of the LayerNorm, by patch size (4, or 2 overlapped or not)
PatchEmbed_kernel(pe) ==
    IF pe.patch_size = 4 THEN 7 ELSE IF pe.overlapped THEN 3 ELSE 2

PatchEmbed_padding(pe) ==
    IF pe.patch_size = 4 THEN 3 ELSE IF pe.overlapped THEN 1 ELSE 0

PatchEmbed_norm_dim(pe) ==
    IF pe.patch_size = 4 THEN pe.embed_dim ELSE pe.in_chans

\* F.pad on the last two axes of a (.., H, W) tensor, seen on one H x W
\* plane (a sequence of rows); p = (w_left, w_right, h_top, h_bottom)
F_pad2d(plane, p) ==
    LET H == Len(plane)
        W == Len(plane[1])
    IN  [h \in 1..(p[3] + H + p[4]) |->
            [w \in 1..(p[1] + W + p[2]) |->
                IF h > p[3] /\ h <= p[3] + H /\ w > p[1] /\ w <= p[1] + W
                THEN plane[h - p[3]][w - p[1]]
                ELSE 0]]

\* mutant: the padding goes to the left and the top
PatchEmbed_pad_leading(pe, H, W) ==
    <<IF W % pe.patch_size # 0 THEN pe.patch_size - (W % pe.patch_size) ELSE 0, 0,
      IF H % pe.patch_size # 0 THEN pe.patch_size - (H % pe.patch_size) ELSE 0, 0>>

\* the two F.pad calls of PatchEmbed.forward as one (w_left, w_right,
\* h_top, h_bottom)
PatchEmbed_pad(pe, H, W) ==
    <<0, IF W % pe.patch_size # 0 THEN pe.patch_size - (W % pe.patch_size) ELSE 0,
      0, IF H % pe.patch_size # 0 THEN pe.patch_size - (H % pe.patch_size) ELSE 0>>

\* the plane PatchEmbed.forward hands to self.proj
PatchEmbed_padded(pe, plane) ==
    F_pad2d(plane, PatchEmbed_pad(pe, Len(plane), Len(plane[1])))

\* if dim == 3: x = self.norm(x); x = x.reshape(B, H, W, C).permute(0, 3, 1, 2)
PatchEmbed_to_image(pe, x, size) ==
    IF Len(x) = 3
    THEN IF x[3] # PatchEmbed_norm_dim(pe) THEN Fail("norm")
         ELSE IF x[2] # size[1] * size[2] THEN Fail("view")
         ELSE Ok(<<x[1], x[3], size[1], size[2]>>)
    ELSE Ok(x)

\* the padding, self.proj, flatten(2).transpose(1, 2) and, for an image
\* input, self.norm, on the (B, C, H, W) shape img
PatchEmbed_project(pe, dim, img) ==
    LET pad == PatchEmbed_pad(pe, img[3], img[4])
        Hp == pad[3] + img[3] + pad[4]
        Wp == pad[1] + img[4] + pad[2]
        h == ConvOut(Hp, PatchEmbed_kernel(pe), pe.patch_size, PatchEmbed_padding(pe))
        w == ConvOut(Wp, PatchEmbed_kernel(pe), pe.patch_size, PatchEmbed_padding(pe))
        out == [err |-> "", x |-> <<img[1], h * w, pe.embed_dim>>,
                newsize |-> <<h, w>>, padded |-> <<Hp, Wp>>]
    IN  IF ~(pe.patch_size \in {2, 4}) THEN [out EXCEPT !.err = "attribute"]
        ELSE IF img[2] # pe.in_chans \/ h <= 0 \/ w <= 0 THEN [out EXCEPT !.err = "conv"]
        ELSE IF dim = 4 /\ pe.embed_dim # PatchEmbed_norm_dim(pe)
        THEN [out EXCEPT !.err = "norm"]
        ELSE out

\* PatchEmbed.forward(x, size): x is the shape of an image (B, C, H, W) or
\* of a token sequence (B, H*W, C) of spatial size `size`
PatchEmbed_image(pe, x, img) ==
    IF img.err # ""
    THEN [err |-> img.err, x |-> <<>>, newsize |-> <<0, 0>>, padded |-> <<0, 0>>]
    ELSE PatchEmbed_project(pe, Len(x), img.shape)

PatchEmbed_forward(pe, x, size) ==
    PatchEmbed_image(pe, x, PatchEmbed_to_image(pe, x, size))

(* davit.py: the layers of a stage, on the shape (B, N, C) of the tokens *)

\* ConvPosEnc.forward: x.transpose(1, 2).view(B, C, H, W); self.proj
ConvPosEnc_forward(dim, x, size) ==
    IF x[2] # size[1] * size[2] THEN Fail("view")
    ELSE IF x[3] # dim THEN Fail("conv")
    ELSE Ok(x)

\* a @ b on shapes (.., m, k) and (.., k, n) with equal leading axes
MatMul(a, b) ==
    LET n == Len(a)
    IN  IF Len(b) # n \/ (\E j \in 1..(n - 2) : a[j] # b[j]) \/ a[n] # b[n - 1]
        THEN Fail("matmul")
        ELSE Ok([j \in 1..n |-> IF j = n THEN b[n] ELSE a[j]])

\* tensor.transpose(i, j), axes counted from 1
Transpose(shape, i, j) ==
    [k \in 1..Len(shape) |->
        IF k = i THEN shape[j] ELSE IF k = j THEN shape[i] ELSE shape[k]]

\* tensor.reshape(req), every entry of req given
Reshape(shape, req) == IF Prod(shape) = Prod(req) THEN Ok(req) ELSE Fail("view")

\* what an attention module returns: the output's shape and, for the
\* record, the shape of its attention matrix
AttnOk(shape, attention) == [err |-> "", shape |-> shape, attention |-> attention]
AttnFail(kind) == [err |-> kind, shape |-> <<>>, attention |-> <<>>]

\* self.qkv(x).reshape(B, N, 3, self.num_heads, C // self.num_heads)
\*     .permute(2, 0, 3, 1, 4): the shape of each of q, k, v
qkv_heads(layer, x) ==
    IF x[3] # layer.dim THEN Fail("linear")
    ELSE IF Reshape(<<x[1], x[2], 3 * layer.dim>>,
                    <<x[1], x[2], 3, layer.num_heads, x[3] \div layer.num_heads>>).err # ""
    THEN Fail("view")
    ELSE Ok(<<x[1], layer.num_heads, x[2], x[3] \div layer.num_heads>>)

\* mutant: the attention matrix is taken over the tokens
ChannelAttention_heads_tokens(x, q) ==
    LET attention == MatMul(q, Transpose(q, 3, 4))
        y == MatMul(attention.shape, q)
        out == Reshape(Transpose(y.shape, 2, 3), x)
    IN  IF attention.err # "" THEN AttnFail(attention.err)
        ELSE IF y.err # "" THEN AttnFail(y.err)
        ELSE IF out.err # "" THEN AttnFail(out.err)
        ELSE AttnOk(out.shape, attention.shape)

\* attention = k.transpose(-1, -2) @ v; x = (attention @ q.transpose(-1, -2))
\*     .transpose(-1, -2); x = x.transpose(1, 2).reshape(B, N, C); self.proj
ChannelAttention_heads(x, q) ==
    LET attention == MatMul(Transpose(q, 3, 4), q)
        y == MatMul(attention.shape, Transpose(q, 3, 4))
        out == Reshape(Transpose(Transpose(y.shape, 3, 4), 2, 3), x)
    IN  IF attention.err # "" THEN AttnFail(attention.err)
        ELSE IF y.err # "" THEN AttnFail(y.err)
        ELSE IF out.err # "" THEN AttnFail(out.err)
        ELSE AttnOk(out.shape, attention.shape)

(* The same products on the axes' names: q, k and v are (batch, head,   *)
(* token, channel) after the permute; each axis is named after its tensor. *)
AxesOf(t) == <<"batch", "head", t \o ".token", t \o ".channel">>

\* a @ b: the axes of the product and the pair of axes summed over
MatMulAxes(a, b) ==
    [axes |-> [j \in 1..Len(a) |-> IF j = Len(a) THEN b[Len(b)] ELSE a[j]],
     contracted |-> <<a[Len(a)], b[Len(b) - 1]>>]

\* tensor.softmax(dim=dim) of a product: the axis normalised over
Softmax(product, dim) ==
    [axes |-> product.axes, contracted |-> product.contracted,
     over |-> product.axes[IF dim < 0 THEN Len(product.axes) + 1 + dim ELSE dim + 1]]

\* mutant: the matrix is that of queries against keys
ChannelAttention_softmax_tokens ==
    Softmax(MatMulAxes(AxesOf("q"), Transpose(AxesOf("k"), 3, 4)), -1)

\* attention = k.transpose(-1, -2) @ v; attention = attention.softmax(dim=-1)
ChannelAttention_softmax ==
    Softmax(MatMulAxes(Transpose(AxesOf("k"), 3, 4), AxesOf("v")), -1)

\* attn = (q @ k.transpose(-2, -1)); attn = self.softmax(attn), Softmax(dim=-1)
WindowAttention_softmax ==
    Softmax(MatMulAxes(AxesOf("q"), Transpose(AxesOf("k"), 3, 4)), -1)

\* ChannelAttention.forward on a (B, N, C) input
ChannelAttention_forward(layer, x) ==
    IF qkv_heads(layer, x).err # "" THEN AttnFail(qkv_heads(layer, x).err)
    ELSE ChannelAttention_heads(x, qkv_heads(layer, x).shape)

\* attn = q @ k.transpose(-2, -1); x = (attn @ v).transpose(1, 2)
\*     .reshape(B_, N, C); self.proj
WindowAttention_heads(x, q) ==
    LET attn == MatMul(q, Transpose(q, 3, 4))
        y == MatMul(attn.shape, q)
        out == Reshape(Transpose(y.shape, 2, 3), x)
    IN  IF attn.err # "" THEN AttnFail(attn.err)
        ELSE IF y.err # "" THEN AttnFail(y.err)
        ELSE IF out.err # "" THEN AttnFail(out.err)
        ELSE AttnOk(out.shape, attn.shape)

\* WindowAttention.forward on a (B_, N, C) input
WindowAttention_forward(layer, x) ==
    IF qkv_heads(layer, x).err # "" THEN AttnFail(qkv_heads(layer, x).err)
    ELSE WindowAttention_heads(x, qkv_heads(layer, x).shape)

\* ChannelBlock.forward: cpe[0], norm1, attn, the residual add, cpe[1], ffn
ChannelBlock_forward(layer, x, size) ==
    IF ConvPosEnc_forward(layer.dim, x, size).err # ""
    THEN ConvPosEnc_forward(layer.dim, x, size)
    ELSE IF ChannelAttention_forward(layer, x).err # ""
    THEN Fail(ChannelAttention_forward(layer, x).err)
    ELSE Broadcast(x, ChannelAttention_forward(layer, x).shape)

\* the windows SpatialBlock.forward hands to self.attn: view(B, H, W, C),
\* F.pad to multiples of the window size, window_partition,
\* view(-1, window_size * window_size, C)
SpatialBlock_windows(layer, x, size) ==
    LET ws == layer.window_size
        Hp == size[1] + pad_amount(size[1], ws)
        Wp == size[2] + pad_amount(size[2], ws)
    IN  <<x[1] * (Hp \div ws) * (Wp \div ws), ws * ws, x[3]>>

\* window_reverse(attn_windows, window_size, Hp, Wp), the crop to (H, W)
\* and view(B, H * W, C)
SpatialBlock_merge(layer, x, size, windows) ==
    LET ws == layer.window_size
        Hp == size[1] + pad_amount(size[1], ws)
        Wp == size[2] + pad_amount(size[2], ws)
        B == windows[1] \div ((Hp * Wp) \div (ws * ws))
    IN  Reshape(<<B, size[1], size[2], windows[3]>>, x)

\* SpatialBlock.forward: cpe[0], norm1, the windows, window attention,
\* window_reverse and crop, the residual add, cpe[1], ffn
SpatialBlock_forward(layer, x, size) ==
    IF ConvPosEnc_forward(layer.dim, x, size).err # ""
    THEN ConvPosEnc_forward(layer.dim, x, size)
    ELSE IF layer.window_size = 0 THEN Fail("zerodiv")
    ELSE IF WindowAttention_forward(layer, SpatialBlock_windows(layer, x, size)).err # ""
    THEN Fail(WindowAttention_forward(layer, SpatialBlock_windows(layer, x, size)).err)
    ELSE SpatialBlock_merge(layer, x, size,
            WindowAttention_forward(layer, SpatialBlock_windows(layer, x, size)).shape)

(* SpatialBlock / ChannelBlock step by step.  The state of a call: the   *)
(* current x, the size, and for the record the sub-modules called so far. *)

\* ConvPosEnc(dim=dim, k=3, act=cpe_act), the n-th entry of self.cpe
ConvPosEnc_init(dim, n) ==
    [dim |-> dim, k |-> 3, name |-> IF n = 0 THEN "cpe.0" ELSE "cpe.1"]

\* SpatialBlock.__init__ / ChannelBlock.__init__
DBlock_init(kind, dim, num_heads, window_size, ffn) ==
    [kind |-> kind, dim |-> dim, num_heads |-> num_heads,
     window_size |-> window_size, ffn |-> ffn,
     cpe |-> <<ConvPosEnc_init(dim, 0), ConvPosEnc_init(dim, 1)>>]

DBlk_Input(x, size) == [err |-> "", x |-> x, size |-> size, steps |-> <<>>]

\* mutant: both positions call the first encoder
DBlk_Cpe_first(layer, st, i) ==
    IF st.err # "" THEN st
    ELSE LET r == ConvPosEnc_forward(layer.cpe[1].dim, st.x, st.size)
         IN  IF r.err # "" THEN Raise(st, r.err)
             ELSE Step([st EXCEPT !.x = r.shape], layer.cpe[1].name)

\* x = self.cpe[i](x, size), i counted from 0
DBlk_Cpe(layer, st, i) ==
    IF st.err # "" THEN st
    ELSE LET r == ConvPosEnc_forward(layer.cpe[i + 1].dim, st.x, st.size)
         IN  IF r.err # "" THEN Raise(st, r.err)
             ELSE Step([st EXCEPT !.x = r.shape], layer.cpe[i + 1].name)

\* the attention branch: self.attn(self.norm1(x)) for a ChannelBlock; for a
\* SpatialBlock the windows of the normed x, self.attn, window_reverse
DBlk_Branch(layer, x, size) ==
    IF layer.kind = "channel" THEN ChannelAttention_forward(layer, x)
    ELSE IF layer.window_size = 0 THEN AttnFail("zerodiv")
    ELSE IF WindowAttention_forward(layer, SpatialBlock_windows(layer, x, size)).err # ""
    THEN WindowAttention_forward(layer, SpatialBlock_windows(layer, x, size))
    ELSE SpatialBlock_merge(layer, x, size,
            WindowAttention_forward(layer, SpatialBlock_windows(layer, x, size)).shape)

\* norm1, the attention branch, x = x + self.drop_path(cur)
DBlk_Attn(layer, st) ==
    IF st.err # "" THEN st
    ELSE IF st.x[3] # layer.dim THEN Raise(st, "norm")
    ELSE LET a == DBlk_Branch(layer, st.x, st.size)
         IN  IF a.err # "" THEN Raise(Step(st, "norm1"), a.err)
             ELSE IF Broadcast(st.x, a.shape).err # ""
             THEN Raise([st EXCEPT !.steps = @ \o <<"norm1", "attn">>], "broadcast")
             ELSE [st EXCEPT !.x = Broadcast(st.x, a.shape).shape,
                             !.steps = @ \o <<"norm1", "attn", "add1">>]

\* if self.ffn: x = x + self.drop_path(self.mlp(self.norm2(x)))
DBlk_Ffn(layer, st) ==
    IF st.err # "" \/ ~layer.ffn THEN st
    ELSE [st EXCEPT !.steps = @ \o <<"norm2", "mlp", "add2">>]

\* SpatialBlock.forward / ChannelBlock.forward: returns x, size
DBlock_forward(layer, x, size) ==
    DBlk_Ffn(layer, DBlk_Cpe(layer, DBlk_Attn(layer,
        DBlk_Cpe(layer, DBlk_Input(x, size), 0)), 1))

Layer_forward(layer, x, size) ==
    IF layer.kind = "channel" THEN ChannelBlock_forward(layer, x, size)
    ELSE SpatialBlock_forward(layer, x, size)

(* davit.py: the windows of SpatialBlock.forward, element by element *)

\* davit.window_partition(x, window_size), x of shape (B, H, W, C) with H
\* and W multiples of window_size
davit_window_partition(x, window_size) ==
    LET xv == View(x, <<x.shape[1], x.shape[2] \div window_size, window_size,
                        x.shape[3] \div window_size, window_size, x.shape[4]>>)
        xq == Permute(xv, <<1, 2, 4, 3, 5, 6>>)
    IN  View(xq, <<Prod(xq.shape) \div (window_size * window_size * x.shape[4]),
                   window_size, window_size, x.shape[4]>>)

\* davit.window_reverse(windows, window_size, H, W);
\* B = int(windows.shape[0] / (H * W / window_size / window_size))
window_reverse(windows, window_size, H, W) ==
    LET B == (windows.shape[1] * window_size * window_size) \div (H * W)
        xv == View(windows, <<B, H \div window_size, W \div window_size,
                              window_size, window_size,
                              Prod(windows.shape) \div (B * H * W)>>)
    IN  View(Permute(xv, <<1, 2, 4, 3, 5, 6>>),
             <<B, H, W, Prod(windows.shape) \div (B * H * W)>>)

\* SpatialBlock.forward: pad_l = pad_t = 0, pad_r, pad_b, F.pad, then
\* window_partition of the padded map; (Hp, Wp) is the padded shape
SpatialBlock_partition(x, window_size) ==
    LET pad_r == pad_amount(x.shape[3], window_size)
        pad_b == pad_amount(x.shape[2], window_size)
        xp == F_pad(x, <<0, 0, 0, pad_r, 0, pad_b>>)
    IN  [windows |-> davit_window_partition(xp, window_size),
         pad_hw |-> <<xp.shape[2], xp.shape[3]>>]

\* SpatialBlock.forward: window_reverse(attn_windows, window_size, Hp, Wp)
\* and x[:, :H, :W, :].contiguous()
SpatialBlock_unpartition(windows, window_size, pad_hw, hw) ==
    Crop(window_reverse(windows, window_size, pad_hw[1], pad_hw[2]), hw[1], hw[2])

(* davit.py: DaViT *)

DaViTWindowSize == 7

\* the largest stage index of the architecture plus one; 0 when no stage
\* has a block
last_stage(depths) ==
    IF \A i \in 1..Len(depths) : depths[i] = 0 THEN 0
    ELSE CHOOSE i \in 1..Len(depths) :
            depths[i] > 0 /\ \A j \in (i + 1)..Len(depths) : depths[j] = 0

\* dpr = linspace(0, drop_path_rate, 2 * len(chain(*architecture)))
DaViT_dpr(cfg) == linspace(2 * SumSeq(cfg.depths))

\* the index 2 * (layer_id + layer_offset_id) + attention_id into dpr of the
\* k-th layer (from 1) of stage s (from 1)
dpr_index(cfg, s, k) ==
    2 * (((k - 1) \div Len(cfg.attention_types)) + SumSeq(SubSeq(cfg.depths, 1, s - 1)))
        + ((k - 1) % Len(cfg.attention_types))

\* drop_path=dpr[2 * (layer_id + layer_offset_id) + attention_id]
dpr_at(cfg, s, k) == DaViT_dpr(cfg)[dpr_index(cfg, s, k) + 1]

\* some layer's index is beyond the end of dpr
dpr_index_error(cfg) ==
    \E s \in 1..Len(cfg.depths) :
       \E k \in 1..(Len(cfg.attention_types) * cfg.depths[s]) :
          dpr_index(cfg, s, k) >= 2 * SumSeq(cfg.depths)

\* the layers of one stage, in the order forward_network runs them:
\* depth blocks of one layer per attention type
stage_layers(cfg, s) ==
    [k \in 1..(Len(cfg.attention_types) * cfg.depths[s]) |->
        [kind |-> cfg.attention_types[((k - 1) % Len(cfg.attention_types)) + 1],
         dim |-> cfg.embed_dims[s], num_heads |-> cfg.num_heads[s],
         drop_path |-> dpr_at(cfg, s, k),
         window_size |-> DaViTWindowSize]]

\* self.feature_info += [dict(num_chs=self.embed_dims[stage_id], reduction=2,
\*                            module=f'stages.stage_{stage_id}')]
DaViT_feature_info(cfg) ==
    [s \in 1..Len(cfg.depths) |->
        [num_chs |-> cfg.embed_dims[s], reduction |-> 2, module |-> <<"stages", s - 1>>]]

\* the object a constructor that raised leaves behind: none
DaViT_failed(cfg, kind) ==
    [ok |-> FALSE, err |-> kind, num_stages |-> Len(cfg.embed_dims),
     embed_dims |-> cfg.embed_dims, grad_checkpointing |-> FALSE,
     patch_embeds |-> <<>>, stages |-> <<>>, feature_info |-> <<>>]

\* DaViT.__init__: sorted(chain(*architecture))[-1] raises on an architecture
\* without a block; the assertion on the stage counts; patch_embeds; the
\* loop over the architecture, which builds the stages and reads
\* self.embed_dims[stage_id] for every entry of depths
DaViT_init(cfg) ==
    IF \A i \in 1..Len(cfg.depths) : cfg.depths[i] = 0
    THEN DaViT_failed(cfg, "index")
    ELSE IF ~(Len(cfg.embed_dims) = Len(cfg.num_heads)
              /\ Len(cfg.num_heads) = last_stage(cfg.depths))
    THEN DaViT_failed(cfg, "assert")
    ELSE IF Len(cfg.depths) > Len(cfg.embed_dims) \/ dpr_index_error(cfg)
    THEN DaViT_failed(cfg, "index")
    ELSE [ok |-> TRUE, err |-> "", num_stages |-> Len(cfg.embed_dims),
          embed_dims |-> cfg.embed_dims, grad_checkpointing |-> FALSE,
          patch_embeds |->
            [i \in 1..Len(cfg.embed_dims) |->
                [patch_size |-> IF i = 1 THEN cfg.patch_size ELSE 2,
                 in_chans |-> IF i = 1 THEN cfg.in_chans ELSE cfg.embed_dims[i - 1],
                 embed_dim |-> cfg.embed_dims[i],
                 overlapped |-> cfg.overlapped_patch]],
          stages |-> [s \in 1..Len(cfg.depths) |-> stage_layers(cfg, s)],
          feature_info |-> DaViT_feature_info(cfg)]

(* A tensor held in `features`: its shape, the stage that produced it     *)
(* (0 for the input image), the number of that stage's layers applied and *)
(* the calls forward_network made to produce it from the previous entry.  *)

\* torch.utils.checkpoint.checkpoint(function, *args): function(*args), the
\* activations being recomputed in the backward pass
checkpoint_checkpoint(layer, x, size) == Layer_forward(layer, x, size)

\* if self.grad_checkpointing and not torch.jit.is_scripting():
\*     checkpoint.checkpoint(layer, features[-1], sizes[-1])
\* else: layer(features[-1], sizes[-1])
layer_call(gc, layer, x, size) ==
    IF gc THEN checkpoint_checkpoint(layer, x, size) ELSE Layer_forward(layer, x, size)

\* the call as forward_network made it: through the recompute primitive or
\* directly, on which layer, with which arguments
CallOf(via, kind, k, x, size) ==
    [via |-> via, kind |-> kind, block |-> (k + 1) \div 2, x |-> x, size |-> size]

\* mutant: what the recompute primitive returns is not stored
layer_applied_dropped(gc, layer, k, t, size, r) ==
    IF gc
    THEN [t EXCEPT !.calls = Append(@, CallOf("checkpoint", layer.kind, k, t.shape, size))]
    ELSE [t EXCEPT !.err = r.err,
                   !.shape = IF r.err = "" THEN r.shape ELSE @,
                   !.layers = k,
                   !.calls = Append(@, CallOf("layer", layer.kind, k, t.shape, size))]

\* features[-1], sizes[-1] = r, the result of the k-th layer of the stage
layer_applied(gc, layer, k, t, size, r) ==
    [t EXCEPT !.err = r.err,
              !.shape = IF r.err = "" THEN r.shape ELSE @,
              !.layers = k,
              !.calls = Append(@, CallOf(IF gc THEN "checkpoint" ELSE "layer",
                                         layer.kind, k, t.shape, size))]

\* for block in stage: for layer in block: features[-1], sizes[-1] = ...
RECURSIVE run_layers(_, _, _, _, _)
run_layers(gc, layers, k, t, size) ==
    IF k > Len(layers) \/ t.err # "" THEN t
    ELSE run_layers(gc, layers, k + 1,
                    layer_applied(gc, layers[k], k, t, size,
                                  layer_call(gc, layers[k], t.shape, size)),
                    size)

\* mutant: the stage's output is appended after the last stage too
append_output_always(features, num_stages) == Append(features, features[Len(features)])

\* if len(features) < self.num_stages: features.append(features[-1])
append_output(features, num_stages) ==
    IF Len(features) < num_stages THEN Append(features, features[Len(features)])
    ELSE features

\* features[-1] = v
set_last(features, v) == [features EXCEPT ![Len(features)] = v]

\* one iteration of the loop of forward_network, for stage i (from 1):
\* [err, features, sizes]
stage_embedded(m, i, features, sizes, pe) ==
    IF pe.err # "" THEN [err |-> pe.err, features |-> features, sizes |-> sizes]
    ELSE [err |-> "", sizes |-> set_last(sizes, pe.newsize),
          features |-> set_last(features,
                          [err |-> "", shape |-> pe.x, stage |-> i, layers |-> 0,
                           calls |-> <<CallOf("direct", "patch_embed", 0,
                                              features[Len(features)].shape,
                                              sizes[Len(sizes)])>>])]

stage_layered(m, i, st, t) ==
    IF t.err # "" THEN [st EXCEPT !.err = t.err]
    ELSE [err |-> "",
          features |-> append_output(set_last(st.features, t), m.num_stages),
          sizes |-> append_output(st.sizes, m.num_stages)]

stage_run(m, i, st) ==
    IF st.err # "" THEN st
    ELSE stage_layered(m, i, st,
                       run_layers(m.grad_checkpointing, m.stages[i], 1,
                                  st.features[Len(st.features)],
                                  st.sizes[Len(st.sizes)]))

forward_network_stage(m, i, features, sizes) ==
    stage_run(m, i,
              stage_embedded(m, i, features, sizes,
                             PatchEmbed_forward(m.patch_embeds[i],
                                                features[Len(features)].shape,
                                                sizes[Len(sizes)])))

\* features = [x]; sizes = [size]
network_input(x) ==
    [err |-> "",
     features |-> <<[err |-> "", shape |-> x, stage |-> 0, layers |-> 0, calls |-> <<>>]>>,
     sizes |-> <<<<x[3], x[4]>>>>]

\* the loop "for patch_layer, stage in zip(self.patch_embeds, self.stages)"
\* from iteration i on, st being what the iterations before left
RECURSIVE forward_network_from(_, _, _)
forward_network_from(m, i, st) ==
    IF st.err # "" \/ i > Min(Len(m.patch_embeds), Len(m.stages)) THEN st
    ELSE forward_network_from(m, i + 1,
                              forward_network_stage(m, i, st.features, st.sizes))

\* DaViT.forward_network(x): [err, features, sizes]
forward_network(m, x) == forward_network_from(m, 1, network_input(x))

\* forward_pyramid_features: out.view(-1, H, W, self.embed_dims[i])
\*                              .permute(0, 3, 1, 2) for every feature
pyramid_view(t, v) ==
    IF v.err # "" THEN [t EXCEPT !.err = v.err]
    ELSE [t EXCEPT !.shape = <<v.shape[1], v.shape[4], v.shape[2], v.shape[3]>>]

pyramid_entry(m, i, t, size) ==
    IF i > Len(m.embed_dims) THEN [t EXCEPT !.err = "index"]
    ELSE pyramid_view(t, ViewInfer(t.shape, <<0, size[1], size[2], m.embed_dims[i]>>, 1))

forward_pyramid_outs(m, features, sizes) ==
    [i \in 1..Len(features) |-> pyramid_entry(m, i, features[i], sizes[i])]

\* the exception of the first entry that raised, "" if none did
first_error(outs) ==
    IF \A i \in 1..Len(outs) : outs[i].err = "" THEN ""
    ELSE outs[CHOOSE i \in 1..Len(outs) :
                outs[i].err # "" /\ \A j \in 1..(i - 1) : outs[j].err = ""].err

----------------------------------------------------------------------------
(* The state machines.  Each specification exercises one part of the      *)
(* program; the variables of the other parts stay at their idle values.   *)

\* a feature map whose elements are pairwise distinct and non-zero
Iota(shape) == [shape |-> shape, data |-> [j \in 1..Prod(shape) |-> j]]

EmptyT == [shape |-> <<>>, data |-> <<>>]

WinIdle ==
    /\ wimpl = "none"
    /\ wx = EmptyT
    /\ wsize = 0
    /\ wwin = EmptyT
    /\ wpad = <<0, 0>>
    /\ wout = EmptyT
    /\ wpc = "idle"

BlkIdle ==
    /\ bcfg = NoneVal
    /\ bmul2 = 0
    /\ bx = <<>>
    /\ bres = NoneVal
    /\ bpc = "idle"

HieraIdle ==
    /\ hcfg = NoneVal
    /\ hm = NoneVal
    /\ hcall = NoneVal
    /\ hfwd = NoneVal
    /\ hpc = "idle"

(* window_partition followed by window_unpartition *)

PatchIdle ==
    /\ pecfg = NoneVal
    /\ pex = NoneVal
    /\ peres = NoneVal
    /\ pepadded = NoneVal
    /\ pepc = "idle"

DaViTIdle ==
    /\ dcfg = NoneVal
    /\ dm = NoneVal
    /\ dx = NoneVal
    /\ dfeatures = <<>>
    /\ dsizes = <<>>
    /\ di = 0
    /\ douts = <<>>
    /\ derr = ""
    /\ dpc = "idle"

FilterIdle ==
    /\ fsd = <<>>
    /\ fout = <<>>
    /\ fout2 = <<>>
    /\ fpc = "idle"

LoaderIdle ==
    /\ lbatches = <<>>
    /\ lerase = FALSE
    /\ lidx = 0
    /\ lfirst = TRUE
    /\ lcur = NoneVal
    /\ lnext = NoneVal
    /\ lstream = <<>>
    /\ lwaited = 0
    /\ lout = <<>>
    /\ lpc = "idle"

OptIdle ==
    /\ oargs = NoneVal
    /\ omodel = <<>>
    /\ ofilter = FALSE
    /\ oopt = NoneVal
    /\ opc = "idle"

DBlkIdle ==
    /\ kcfg = NoneVal
    /\ kx = <<>>
    /\ ksize = <<>>
    /\ kres = NoneVal
    /\ kpc = "idle"

AttnIdle ==
    /\ acfg = NoneVal
    /\ ax = <<>>
    /\ ares = NoneVal
    /\ asoft = NoneVal
    /\ apc = "idle"

WinInit ==
    /\ wimpl \in {"hieradet", "davit"}
    /\ \E B \in 1..MaxB, H \in 1..MaxH, W \in 1..MaxW, C \in 1..MaxC :
          wx = Iota(<<B, H, W, C>>)
    /\ wsize \in 1..MaxWs
    /\ wwin = EmptyT
    /\ wpad = <<0, 0>>
    /\ wout = EmptyT
    /\ wpc = "input"

WinPartition ==
    /\ wpc = "input"
    /\ LET r == IF wimpl = "hieradet" THEN window_partition(wx, wsize)
                ELSE SpatialBlock_partition(wx, wsize)
       IN  /\ wwin' = r.windows
           /\ wpad' = r.pad_hw
    /\ wpc' = "partitioned"
    /\ UNCHANGED <<wimpl, wx, wsize, wout, blkVars, hieraVars, patchVars, davitVars, attnVars, dblkVars, filterVars, loaderVars, optVars>>

WinUnpartition ==
    /\ wpc = "partitioned"
    /\ wout' = IF wimpl = "hieradet"
               THEN window_unpartition(wwin, wsize, wpad, <<wx.shape[2], wx.shape[3]>>)
               ELSE SpatialBlock_unpartition(wwin, wsize, wpad, <<wx.shape[2], wx.shape[3]>>)
    /\ wpc' = "done"
    /\ UNCHANGED <<wimpl, wx, wsize, wwin, wpad, blkVars, hieraVars, patchVars, davitVars, attnVars, dblkVars, filterVars, loaderVars, optVars>>

WinNext == WinPartition \/ WinUnpartition

SpecWinInit == WinInit /\ BlkIdle /\ HieraIdle /\ PatchIdle /\ DaViTIdle /\ AttnIdle /\ DBlkIdle /\ FilterIdle /\ LoaderIdle /\ OptIdle

SpecWin == SpecWinInit /\ [][WinNext]_vars

(* one MultiScaleBlock, constructed as HieraDet constructs its blocks (the *)
(* block keeps its width, or changes it by dim_mul), and one forward call  *)

DimMul2s == {2, 3, 4}      \* dim_mul 1.0, 1.5, 2.0
QStrides == {NoneVal, <<2, 2>>}

BlkInit ==
    /\ bmul2 \in DimMul2s
    /\ \E dim \in 1..MaxDim, change \in BOOLEAN, nh \in 1..MaxHeads,
          qs \in QStrides, ws \in 0..MaxBlkWs :
          bcfg = [dim |-> dim,
                  dim_out |-> IF change THEN stage_dim_out(dim, bmul2) ELSE dim,
                  num_heads |-> nh, q_stride |-> qs, window_size |-> ws]
    /\ \E B \in 1..MaxBlkB, H \in 1..MaxBlkHW, W \in 1..MaxBlkHW :
          bx = <<B, H, W, bcfg.dim>>
    /\ bres = NoneVal
    /\ bpc = "ready"

BlkForward ==
    /\ bpc = "ready"
    /\ bres' = MultiScaleBlock_forward(bcfg, bx)
    /\ bpc' = "done"
    /\ UNCHANGED <<bcfg, bmul2, bx, winVars, hieraVars, patchVars, davitVars, attnVars, dblkVars, filterVars, loaderVars, optVars>>

BlkNext == BlkForward

SpecBlkInit == BlkInit /\ WinIdle /\ HieraIdle /\ PatchIdle /\ DaViTIdle /\ AttnIdle /\ DBlkIdle /\ FilterIdle /\ LoaderIdle /\ OptIdle

SpecBlk == SpecBlkInit /\ [][BlkNext]_vars

----------------------------------------------------------------------------
(* C1: unpartitioning the partition of x with the padded size returned by  *)
(* the partition and the original (H, W) gives back a tensor of x's shape  *)
(* with every element at its original position, with or without padding.   *)
C1_RoundTrip ==
    wpc = "done" => /\ wout.shape = wx.shape
                    /\ wout.data = wx.data

\* a round trip in which padding was added on both axes, over several
\* windows and a batch larger than one
C1_Witness ==
    /\ wpc = "done"
    /\ wx.shape[1] > 1
    /\ wx.shape[2] % wsize # 0
    /\ wx.shape[3] % wsize # 0
    /\ wx.shape[2] > wsize
    /\ wout = wx

(* one HieraDet: construction, then any sequence of forward_intermediates *)
(* and prune_intermediate_layers calls                                     *)

\* stage depths: every stage one block, or the first stage two blocks
StagesOf(n) == {[k \in 1..n |-> 1], [k \in 1..n |-> IF k = 1 THEN 2 ELSE 1]}
\* window sizes per stage: alternating 4 and 2
WindowSpecOf(n) == [k \in 1..n |-> IF k % 2 = 1 THEN 4 ELSE 2]
\* a second stage of two blocks
LateStagesOf(n) == IF n >= 2 THEN {[k \in 1..n |-> IF k = 2 THEN 2 ELSE 1]} ELSE {}
GlobalAttChoices == {{}, {1}}
HieraMul2s == {2, 4}       \* dim_mul 1.0 and 2.0
\* images (B, in_chans, H, W): a 4 x 8 and a 4 x 3 grid of patches
HieraImages == {<<2, 3, 16, 32>>, <<1, 3, 16, 10>>}

\* the image the calls before and after a prune are compared on
PruneImage == <<2, 3, 16, 32>>

IndexChoices ==
    {IdxNone, IdxInt(1)}
        \cup {IdxList(<<a>>) : a \in {-1, 0, 1, MaxIdx}}
        \cup {IdxList(<<1, 0>>), IdxList(<<0, 0>>)}

PruneIndexChoices ==
    {IdxInt(1)} \cup {IdxList(<<a>>) : a \in {-2, 0, 1}}

NoCall == [op |-> "none", indices |-> IdxNone, stop_early |-> FALSE, coarse |-> FALSE,
           img |-> <<>>, nblocks |-> 0,
           sel |-> [err |-> "", sel |-> <<>>, take |-> <<>>, max_index |-> -1],
           run |-> NoRun]

\* what a call of forward_intermediates leaves to observe: its arguments,
\* the number of blocks of the model it ran on, and its outcome r
CallRecord(indices, stop_early, coarse, img, nblocks, r) ==
    [op |-> "forward_intermediates", indices |-> indices,
     stop_early |-> stop_early, coarse |-> coarse, img |-> img,
     nblocks |-> nblocks, sel |-> r.sel, run |-> r.run]

\* a call of forward_intermediates that returned before the last block
EarlyExit(c) ==
    /\ c.op = "forward_intermediates"
    /\ c.stop_early
    /\ c.run.err = ""
    /\ c.run.invoked < c.nblocks

\* no call of forward_features yet
NoFwd == [op |-> "none", img |-> <<>>, run |-> NoRun]

HieraInit ==
    /\ hcfg = NoneVal
    /\ hm = NoneVal
    /\ hcall = NoCall
    /\ hfwd = NoFwd
    /\ hpc = "new"

HConstruct ==
    /\ hpc = "new"
    /\ \E n \in 1..MaxStages, nw \in 1..MaxStages :
       \E stages \in StagesOf(n) \cup LateStagesOf(n), q_pool \in 0..MaxStages,
          gab \in GlobalAttChoices, mul2 \in HieraMul2s \cup {3} :
          /\ nw \in {n, 1}
          /\ stages \in LateStagesOf(n) => mul2 = 3
          /\ mul2 = 3 => (gab = {} /\ nw = n /\ q_pool = n - 1)
          /\ hcfg' = [embed_dim |-> 2, num_heads |-> 1, q_pool |-> q_pool,
                      q_stride |-> <<2, 2>>, stages |-> stages, dim_mul2 |-> mul2,
                      head_mul2 |-> 4, window_spec |-> WindowSpecOf(nw),
                      global_att_blocks |-> gab]
          /\ hm' = HieraDet_init(hcfg')
          /\ hpc' = IF hm'.ok THEN "constructed" ELSE "failed"
    /\ UNCHANGED <<hcall, hfwd, winVars, blkVars, patchVars, davitVars, attnVars, dblkVars, filterVars, loaderVars, optVars>>

HForwardIntermediates ==
    /\ hpc = "constructed"
    /\ \E img \in HieraImages, indices \in IndexChoices,
          stop_early \in BOOLEAN, coarse \in BOOLEAN :
          /\ hcall' = CallRecord(indices, stop_early, coarse, img, Len(hm.blocks),
                                 forward_intermediates(hm, hcfg, img, indices,
                                                       stop_early, coarse))
          /\ hm' = forward_intermediates_self(hm, select_indices(hm, indices, coarse),
                                              stop_early)
    /\ UNCHANGED <<hcfg, hfwd, hpc, winVars, blkVars, patchVars, davitVars, attnVars, dblkVars, filterVars, loaderVars, optVars>>

\* forward_features (and forward, which hands its result to the head): the
\* call and its outcome are recorded; no attribute of self is assigned
HForward ==
    /\ hpc = "constructed"
    /\ \E img \in HieraImages :
          /\ hfwd' = [op |-> "forward_features", img |-> img,
                      run |-> forward_features(hm, hcfg, img)]
          /\ hcall' = [op |-> "forward_features", img |-> img,
                       nblocks |-> Len(hm.blocks), run |-> hfwd'.run,
                       \* for the record: the call before this one left the loop
                       \* over the blocks early; forward_features was called
                       \* on this image before
                       after_early_exit |-> EarlyExit(hcall),
                       repeated |-> (hfwd.op = "forward_features" /\ hfwd.img = img)]
    /\ UNCHANGED <<hcfg, hm, hpc, winVars, blkVars, patchVars, davitVars, attnVars, dblkVars, filterVars, loaderVars, optVars>>

\* what a call of prune_intermediate_layers leaves to observe: its
\* arguments, the selection, the blocks before the call and, for the
\* record, what forward_intermediates returns for the same indices on the
\* first image before and after the call
PruneRecord(indices, coarse, m, pruned, s) ==
    [op |-> "prune_intermediate_layers", indices |-> indices,
     stop_early |-> FALSE, coarse |-> coarse, img |-> <<>>,
     nblocks |-> Len(m.blocks), sel |-> s, run |-> NoRun,
     blocks_before |-> m.blocks,
     before |-> forward_intermediates(m, hcfg, PruneImage, indices, TRUE, coarse).run,
     after |-> forward_intermediates(pruned, hcfg, PruneImage, indices, TRUE, coarse).run]

HPrune ==
    /\ hpc = "constructed"
    /\ \E indices \in PruneIndexChoices, coarse \in BOOLEAN :
          /\ hm' = prune_intermediate_layers(hm, indices, coarse)
          /\ hcall' = PruneRecord(indices, coarse, hm, hm',
                                  select_indices(hm, indices, coarse))
    /\ hfwd' = NoFwd
    /\ UNCHANGED <<hcfg, hpc, winVars, blkVars, patchVars, davitVars, attnVars, dblkVars, filterVars, loaderVars, optVars>>

HieraNext == HConstruct \/ HForwardIntermediates \/ HPrune

SpecHieraInit == HieraInit /\ WinIdle /\ BlkIdle /\ PatchIdle /\ DaViTIdle /\ AttnIdle /\ DBlkIdle /\ FilterIdle /\ LoaderIdle /\ OptIdle

SpecHiera == SpecHieraInit /\ [][HieraNext]_vars

(* one HieraDet: construction, then any sequence of forward_features and  *)
(* forward_intermediates calls                                             *)

HieraFwdNext == HConstruct \/ HForwardIntermediates \/ HForward

SpecHieraFwd == SpecHieraInit /\ [][HieraFwdNext]_vars

(* DaViT PatchEmbed: one module, one call of forward on an image or on a  *)
(* token sequence.                                                         *)

\* an H x W plane whose elements are pairwise distinct and non-zero
PlaneOf(H, W) == [h \in 1..H |-> [w \in 1..W |-> (h - 1) * W + w]]

PatchInit ==
    /\ \E patch_size \in {2, 4}, overlapped \in BOOLEAN,
          in_chans \in {2, 3}, embed_dim \in {2, 3} :
          pecfg = [patch_size |-> patch_size, in_chans |-> in_chans,
                   embed_dim |-> embed_dim, overlapped |-> overlapped]
    /\ \E H \in 1..MaxPatchHW, W \in 1..MaxPatchHW, dim \in {3, 4}, C \in {2, 3} :
          pex = [shape |-> IF dim = 4 THEN <<2, C, H, W>> ELSE <<2, H * W, C>>,
                 size |-> <<H, W>>, plane |-> PlaneOf(H, W)]
    /\ peres = NoneVal
    /\ pepadded = NoneVal
    /\ pepc = "ready"

PatchForward ==
    /\ pepc = "ready"
    /\ peres' = PatchEmbed_forward(pecfg, pex.shape, pex.size)
    /\ pepadded' = PatchEmbed_padded(pecfg, pex.plane)
    /\ pepc' = "done"
    /\ UNCHANGED <<pecfg, pex, winVars, blkVars, hieraVars, davitVars, attnVars, dblkVars, filterVars, loaderVars, optVars>>

PatchNext == PatchForward

SpecPatchInit == PatchInit /\ WinIdle /\ BlkIdle /\ HieraIdle /\ DaViTIdle /\ AttnIdle /\ DBlkIdle /\ FilterIdle /\ LoaderIdle /\ OptIdle

SpecPatch == SpecPatchInit /\ [][PatchNext]_vars

(* DaViT: construction, then one call of forward_pyramid_features taken   *)
(* one iteration of forward_network's loop at a time.                      *)

\* depths: every stage one block, the third stage three blocks, or no
\* block in the last stage
DepthChoices(n) ==
    {[i \in 1..n |-> 1], [i \in 1..n |-> IF i = 3 THEN 3 ELSE 1],
     [i \in 1..n |-> IF i = n THEN 0 ELSE 1]}
EmbedDimChoices(n) == {[i \in 1..n |-> 2 * i], [i \in 1..n |-> 3]}
HeadChoices(n) == {[i \in 1..n |-> 1], [i \in 1..n |-> i]}
\* attention_types: the default, one type only, and three
AttentionTypeChoices ==
    {<<"spatial", "channel">>, <<"channel">>, <<"spatial", "channel", "spatial">>}

DaViTInit ==
    /\ dcfg = NoneVal
    /\ dm = NoneVal
    /\ dx = NoneVal
    /\ dfeatures = <<>>
    /\ dsizes = <<>>
    /\ di = 0
    /\ douts = <<>>
    /\ derr = ""
    /\ dpc = "new"

DConstruct ==
    /\ dpc = "new"
    /\ \E n \in 1..MaxDStages, nh \in 0..MaxDStages, nd \in 0..(MaxDStages + 1) :
       \E depths \in DepthChoices(nd), embed_dims \in EmbedDimChoices(n),
          num_heads \in HeadChoices(nh), patch_size \in {2, 4},
          overlapped \in BOOLEAN, attention_types \in AttentionTypeChoices :
          /\ nh \in {n, n - 1}
          /\ nd \in {n - 1, n, n + 1}
          /\ Len(attention_types) # 2 => (patch_size = 4 /\ ~overlapped)
          /\ dcfg' = [in_chans |-> 3, depths |-> depths, patch_size |-> patch_size,
                      embed_dims |-> embed_dims, num_heads |-> num_heads,
                      overlapped_patch |-> overlapped,
                      attention_types |-> attention_types]
          /\ dm' = DaViT_init(dcfg')
          /\ dpc' = IF dm'.ok THEN "constructed" ELSE "failed"
    /\ UNCHANGED <<dx, dfeatures, dsizes, di, douts, derr,
                   winVars, blkVars, hieraVars, patchVars, attnVars, dblkVars, filterVars, loaderVars, optVars>>

\* DaViT.set_grad_checkpointing(enable)
DSetGradCheckpointing ==
    /\ dpc = "constructed"
    /\ \E enable \in BOOLEAN : dm' = [dm EXCEPT !.grad_checkpointing = enable]
    /\ UNCHANGED <<dcfg, dx, dfeatures, dsizes, di, douts, derr, dpc,
                   winVars, blkVars, hieraVars, patchVars, attnVars, dblkVars, filterVars, loaderVars, optVars>>

\* forward_network: size = (x.size(2), x.size(3)); features = [x]; sizes = [size]
DForwardNetwork ==
    /\ dpc = "constructed"
    /\ \E B \in 1..2, H \in 1..MaxDImg, W \in 1..MaxDImg :
          /\ dx' = <<B, dcfg.in_chans, H, W>>
          /\ dfeatures' = network_input(dx').features
          /\ dsizes' = network_input(dx').sizes
    /\ di' = 0
    /\ dpc' = "loop"
    /\ UNCHANGED <<dcfg, dm, douts, derr, winVars, blkVars, hieraVars, patchVars, attnVars, dblkVars, filterVars, loaderVars, optVars>>

\* the record of one loop iteration enters the state
DStageDone(st) ==
    /\ dfeatures' = st.features
    /\ dsizes' = st.sizes
    /\ derr' = st.err
    /\ di' = di + 1
    /\ dpc' = IF st.err # "" THEN "raised" ELSE "loop"

\* one iteration of "for patch_layer, stage in zip(self.patch_embeds, self.stages)"
DStage ==
    /\ dpc = "loop"
    /\ di < Min(Len(dm.patch_embeds), Len(dm.stages))
    /\ DStageDone(forward_network_stage(dm, di + 1, dfeatures, dsizes))
    /\ UNCHANGED <<dcfg, dm, dx, douts, winVars, blkVars, hieraVars, patchVars, attnVars, dblkVars, filterVars, loaderVars, optVars>>

\* the loop is over: forward_pyramid_features builds outs
DPyramid ==
    /\ dpc = "loop"
    /\ di = Min(Len(dm.patch_embeds), Len(dm.stages))
    /\ douts' = forward_pyramid_outs(dm, dfeatures, dsizes)
    /\ derr' = first_error(douts')
    /\ dpc' = IF derr' # "" THEN "raised" ELSE "done"
    /\ UNCHANGED <<dcfg, dm, dx, dfeatures, dsizes, di,
                   winVars, blkVars, hieraVars, patchVars, attnVars, dblkVars, filterVars, loaderVars, optVars>>

DaViTNext == DConstruct \/ DSetGradCheckpointing \/ DForwardNetwork \/ DStage \/ DPyramid

SpecDaViTInit == DaViTInit /\ WinIdle /\ BlkIdle /\ HieraIdle /\ PatchIdle /\ AttnIdle /\ DBlkIdle /\ FilterIdle /\ LoaderIdle /\ OptIdle

SpecDaViT == SpecDaViTInit /\ [][DaViTNext]_vars

(* one attention module (DaViT's WindowAttention or ChannelAttention, or  *)
(* HieraDet's MultiScaleAttention) and one call of its forward            *)

AttnKinds == {"window", "channel", "multiscale"}

\* the module's forward on the input x
Attn_forward(cfg, x) ==
    IF cfg.kind = "window" THEN WindowAttention_forward(cfg, x)
    ELSE IF cfg.kind = "channel" THEN ChannelAttention_forward(cfg, x)
    ELSE [err |-> MultiScaleAttention_forward(cfg, x).err,
          shape |-> MultiScaleAttention_forward(cfg, x).shape,
          attention |-> <<>>]

\* the attention matrix of the module and the axis of its softmax;
\* F.scaled_dot_product_attention is softmax(q @ k.transpose(-2, -1)) @ v
Attn_softmax(cfg) ==
    IF cfg.kind = "channel" THEN ChannelAttention_softmax ELSE WindowAttention_softmax

AttnInit ==
    /\ \E kind \in AttnKinds, dim \in 1..MaxDim, dim_out \in 1..(MaxDim + 1),
          nh \in 1..MaxHeads, qs \in QStrides :
          /\ kind # "multiscale" => (dim_out = dim /\ qs = NoneVal)
          /\ acfg = [kind |-> kind, dim |-> dim, dim_out |-> dim_out,
                     num_heads |-> nh, q_stride |-> qs]
    /\ \E B \in 1..MaxBlkB, H \in 1..MaxBlkHW, W \in 1..MaxBlkHW :
          ax = IF acfg.kind = "multiscale" THEN <<B, H, W, acfg.dim>>
               ELSE <<B, H * W, acfg.dim>>
    /\ ares = NoneVal
    /\ asoft = NoneVal
    /\ apc = "ready"

AttnForward ==
    /\ apc = "ready"
    /\ ares' = Attn_forward(acfg, ax)
    /\ asoft' = Attn_softmax(acfg)
    /\ apc' = "done"
    /\ UNCHANGED <<acfg, ax, winVars, blkVars, hieraVars, patchVars, davitVars, dblkVars, filterVars, loaderVars, optVars>>

AttnNext == AttnForward

SpecAttnInit == AttnInit /\ WinIdle /\ BlkIdle /\ HieraIdle /\ PatchIdle /\ DaViTIdle /\ DBlkIdle /\ FilterIdle /\ LoaderIdle /\ OptIdle

SpecAttn == SpecAttnInit /\ [][AttnNext]_vars

(* one DaViT block, constructed, and one call of its forward on tokens  *)
(* of its own width                                                        *)

DBlkKinds == {"spatial", "channel"}

DBlkInit ==
    /\ \E kind \in DBlkKinds, dim \in 1..MaxDim, nh \in 1..MaxHeads,
          ws \in 1..MaxBlkWs, ffn \in BOOLEAN :
          kcfg = DBlock_init(kind, dim, nh, ws, ffn)
    /\ \E B \in 1..MaxBlkB, H \in 1..MaxBlkHW, W \in 1..MaxBlkHW :
          /\ kx = <<B, H * W, kcfg.dim>>
          /\ ksize = <<H, W>>
    /\ kres = NoneVal
    /\ kpc = "ready"

DBlkForward ==
    /\ kpc = "ready"
    /\ kres' = DBlock_forward(kcfg, kx, ksize)
    /\ kpc' = "done"
    /\ UNCHANGED <<kcfg, kx, ksize, winVars, blkVars, hieraVars, patchVars, davitVars,
                   attnVars, filterVars, loaderVars, optVars>>

DBlkNext == DBlkForward

SpecDBlkInit == DBlkInit /\ WinIdle /\ BlkIdle /\ HieraIdle /\ PatchIdle /\ DaViTIdle /\ AttnIdle /\ FilterIdle /\ LoaderIdle /\ OptIdle

SpecDBlk == SpecDBlkInit /\ [][DBlkNext]_vars

\* the heads divide the width and, for a pooled query, the map can be pooled
AttnUsable ==
    /\ acfg.dim_out % acfg.num_heads = 0
    /\ acfg.q_stride # NoneVal => (ax[2] >= 2 /\ ax[3] >= 2)

\* C14: for every token count N = H * W, WindowAttention and
\* ChannelAttention return a tensor of the shape (B, N, C) of their input,
\* MultiScaleAttention returns a tensor whose last dimension is dim_out,
\* and ChannelAttention's attention matrix is head_dim x head_dim per head
\* whatever N is; the call returns whenever the heads divide the width.
C14_AttentionShapes ==
    apc = "done" =>
        /\ AttnUsable => ares.err = ""
        /\ (ares.err = "" /\ acfg.kind \in {"window", "channel"}) => ares.shape = ax
        /\ (ares.err = "" /\ acfg.kind = "channel") =>
              ares.attention = <<ax[1], acfg.num_heads,
                                 acfg.dim \div acfg.num_heads,
                                 acfg.dim \div acfg.num_heads>>
        /\ (ares.err = "" /\ acfg.kind = "window") =>
              ares.attention = <<ax[1], acfg.num_heads, ax[2], ax[2]>>
        /\ (ares.err = "" /\ acfg.kind = "multiscale") =>
              /\ Len(ares.shape) = 4
              /\ ares.shape[4] = acfg.dim_out
              /\ ares.shape[1] = ax[1]

\* ChannelAttention with two heads of width one on 30 tokens
C14_Witness ==
    /\ apc = "done"
    /\ acfg.kind = "channel"
    /\ acfg.dim = 2 /\ acfg.num_heads = 2
    /\ ax = <<2, 30, 2>>
    /\ ares = AttnOk(<<2, 30, 2>>, <<2, 2, 1, 1>>)

(* construction alone: one HieraDet and one DaViT are constructed, in any *)
(* order, from any of the argument tuples                                 *)

ConstructNext == HConstruct \/ DConstruct

SpecConstructInit == HieraInit /\ DaViTInit /\ WinIdle /\ BlkIdle /\ PatchIdle /\ AttnIdle /\ DBlkIdle /\ FilterIdle /\ LoaderIdle /\ OptIdle

SpecConstruct == SpecConstructInit /\ [][ConstructNext]_vars

----------------------------------------------------------------------------
(* Claims about construction, checked under SpecConstruct *)

DaViTLengthsConsistent ==
    /\ Len(dcfg.depths) = Len(dcfg.embed_dims)
    /\ Len(dcfg.embed_dims) = Len(dcfg.num_heads)

HieraLengthsConsistent ==
    /\ Len(hcfg.stages) = Len(hcfg.window_spec)
    /\ hcfg.q_pool \in 0..(Len(hcfg.stages) - 1)

\* C11: a DaViT whose depths, embed_dims and num_heads do not all have the
\* same length, and a HieraDet with len(stages) != len(window_spec) or a
\* q_pool outside 0..len(stages)-1, is never constructed: the constructor
\* raises and leaves no model, so no forward call can be made on it.
C11_InconsistentLengthsFailConstruction ==
    /\ (dpc # "new" /\ ~DaViTLengthsConsistent)
            => /\ dpc = "failed"
               /\ ~dm.ok /\ dm.stages = <<>> /\ dm.patch_embeds = <<>>
    /\ (hpc # "new" /\ ~HieraLengthsConsistent)
            => /\ hpc = "failed"
               /\ ~hm.ok /\ hm.blocks = <<>>

\* a DaViT with one more entry in depths than in embed_dims and num_heads
\* that passes the assertion on the stage count, and a HieraDet with
\* q_pool = len(stages): both constructors raised
C11_Witness ==
    /\ dpc = "failed"
    /\ Len(dcfg.embed_dims) = Len(dcfg.num_heads)
    /\ Len(dcfg.depths) = Len(dcfg.embed_dims) + 1
    /\ last_stage(dcfg.depths) = Len(dcfg.embed_dims)
    /\ dm.err = "index"
    /\ hpc = "failed"
    /\ Len(hcfg.stages) = Len(hcfg.window_spec)
    /\ hcfg.q_pool = Len(hcfg.stages)

----------------------------------------------------------------------------
(* Claims about DaViT *)

\* the smallest integer not below a / b
CeilDiv(a, b) == (a + b - 1) \div b

PatchReturned == pepc = "done" /\ peres.err = ""

\* C7: PatchEmbed.forward with patch size 4 or 2, overlapped or not, pads
\* with zeros on the bottom and the right only, up to the next multiple of
\* the patch size: every input element keeps its (h, w) position; newsize
\* is (ceil(H/p), ceil(W/p)) and the tokens number newsize[0] * newsize[1].
\* The call returns whenever the channels fit and the input is an image
\* for p = 4, a token sequence for p = 2, as DaViT uses the module.
C7_PatchEmbedPadsBottomRight ==
    LET p == pecfg.patch_size
        H == pex.size[1]
        W == pex.size[2]
    IN  /\ PatchReturned =>
            /\ Len(pepadded) = p * CeilDiv(H, p)
            /\ \A h \in 1..Len(pepadded) :
                  /\ Len(pepadded[h]) = p * CeilDiv(W, p)
                  /\ \A w \in 1..Len(pepadded[h]) :
                        pepadded[h][w] = IF h <= H /\ w <= W THEN pex.plane[h][w] ELSE 0
            /\ peres.padded = <<p * CeilDiv(H, p), p * CeilDiv(W, p)>>
            /\ peres.newsize = <<CeilDiv(H, p), CeilDiv(W, p)>>
            /\ peres.x = <<pex.shape[1], CeilDiv(H, p) * CeilDiv(W, p), pecfg.embed_dim>>
        /\ (/\ pepc = "done"
            /\ Len(pex.shape) = (IF p = 4 THEN 4 ELSE 3)
            /\ pex.shape[IF p = 4 THEN 2 ELSE 3] = pecfg.in_chans)
            => peres.err = ""

\* an overlapped patch-2 embedding of a 5 x 3 token map, padded on both axes
C7_Witness ==
    /\ PatchReturned
    /\ pecfg.patch_size = 2 /\ pecfg.overlapped
    /\ pex.size = <<5, 3>> /\ Len(pex.shape) = 3
    /\ peres.newsize = <<3, 2>>
    /\ Len(pepadded) = 6 /\ pepadded[6][4] = 0 /\ pepadded[5][3] = 15

\* every stage's dim_out is a multiple of its head count and the first
\* patch embedding has DaViT's patch size 4
DaViTUsable ==
    /\ dcfg.patch_size = 4
    /\ \A i \in 1..Len(dcfg.embed_dims) : dcfg.embed_dims[i] % dcfg.num_heads[i] = 0

\* C5: forward_pyramid_features returns exactly num_stages entries for
\* every input size; entry i is the output of stage i after all of that
\* stage's layers, has embed_dims[i] channels and the spatial size stage
\* i's patch embedding returned (ceil of the previous size over the patch
\* size), so sizes do not increase and channels follow embed_dims; the
\* call does not raise on a model whose heads divide its widths.
C5_PyramidHasOneEntryPerStage ==
    /\ dpc = "done" =>
        /\ Len(douts) = dm.num_stages
        /\ \A i \in 1..Len(douts) :
              /\ douts[i].stage = i
              /\ douts[i].layers = Len(dm.stages[i])
              /\ douts[i].shape = <<dx[1], dcfg.embed_dims[i], dsizes[i][1], dsizes[i][2]>>
              /\ dsizes[i] = IF i = 1
                             THEN <<CeilDiv(dx[3], dcfg.patch_size),
                                    CeilDiv(dx[4], dcfg.patch_size)>>
                             ELSE <<CeilDiv(dsizes[i - 1][1], 2),
                                    CeilDiv(dsizes[i - 1][2], 2)>>
        /\ \A i \in 1..(Len(douts) - 1) :
              /\ douts[i].shape[3] >= douts[i + 1].shape[3]
              /\ douts[i].shape[4] >= douts[i + 1].shape[4]
              /\ dcfg.embed_dims[i] < dcfg.embed_dims[i + 1]
                    => douts[i].shape[2] < douts[i + 1].shape[2]
    /\ (dpc \in {"loop", "done", "raised"} /\ DaViTUsable) => dpc # "raised"

\* the calls with the recompute primitive's calls read as direct calls
Direct(calls) ==
    [k \in 1..Len(calls) |->
        IF calls[k].via = "checkpoint" THEN [calls[k] EXCEPT !.via = "layer"] ELSE calls[k]]

DirectFeatures(features) ==
    [i \in 1..Len(features) |-> [features[i] EXCEPT !.calls = Direct(@)]]

\* the model with checkpointing disabled
Unchecked(m) == [m EXCEPT !.grad_checkpointing = FALSE]

\* the features, sizes and calls of the run in dfeatures, dsizes against
\* those of the run r of the same model with checkpointing disabled
SameRun(r) ==
    /\ r.err = ""
    /\ dsizes = r.sizes
    /\ DirectFeatures(dfeatures) = r.features

\* C13: with set_grad_checkpointing(True) forward_network makes the calls
\* it makes with checkpointing disabled, in the same order (stage, block,
\* attention type) and with the same (features, size) arguments, and
\* returns the same features and sizes (it raises where the other run
\* raises); every layer call, and no other call, goes through the
\* recompute primitive, once.
C13_CheckpointingSameCalls ==
    /\ dpc = "done" =>
        /\ SameRun(forward_network(Unchecked(dm), dx))
        /\ \A i \in 1..Len(dfeatures) :
              LET calls == dfeatures[i].calls
              IN  /\ Len(calls) = 1 + Len(dm.stages[i])
                  /\ calls[1].via = "direct" /\ calls[1].kind = "patch_embed"
                  /\ \A k \in 2..Len(calls) :
                        /\ calls[k].kind = dm.stages[i][k - 1].kind
                        /\ calls[k].block = k \div 2
                        /\ calls[k].via = IF dm.grad_checkpointing
                                          THEN "checkpoint" ELSE "layer"
    /\ (dpc = "raised" /\ douts = <<>>) =>
            forward_network(Unchecked(dm), dx).err = derr

\* a returned run with checkpointing enabled over four stages, the third
\* of three blocks
C13_Witness ==
    /\ dpc = "done"
    /\ dm.grad_checkpointing
    /\ dcfg.depths = <<1, 1, 3, 1>>
    /\ dx = <<2, 3, 9, 7>>
    /\ Len(dfeatures[3].calls) = 7
    /\ dfeatures[3].calls[7].via = "checkpoint"
    /\ dfeatures[3].calls[7].kind = "channel"
    /\ dfeatures[2].calls[2].via = "checkpoint"
    /\ dfeatures[2].calls[2].kind = "spatial"
    /\ dfeatures[2].calls[2].x = <<2, 2, dcfg.embed_dims[2]>>
    /\ dfeatures[2].calls[2].size = <<2, 1>>

\* four stages of depths (1, 1, 3, 1) with increasing widths on a 9 x 7 image
C5_Witness ==
    /\ dpc = "done"
    /\ dcfg.depths = <<1, 1, 3, 1>>
    /\ dcfg.embed_dims = <<2, 4, 6, 8>>
    /\ dx = <<2, 3, 9, 7>>
    /\ Len(douts) = 4
    /\ douts[1].shape = <<2, 2, 3, 2>>
    /\ douts[4].shape = <<2, 8, 1, 1>>
    /\ douts[3].layers = 6

----------------------------------------------------------------------------
(* Claims about HieraDet, checked under SpecHiera *)

\* a call of forward_intermediates that returned
Returned(c) == c.op = "forward_intermediates" /\ c.run.err = ""

\* the distinct values of a sequence
Distinct(l) == {l[k] : k \in 1..Len(l)}

\* C3: with stop_early=True exactly max_index + 1 blocks are invoked, and
\* on a model of at least two stages a request for the first pyramid entry
\* alone invokes strictly fewer blocks than the request for all entries
\* made just before it on the same model and image.
C3_StopEarlyInvokesMaxIndexPlusOne ==
    [][/\ (Returned(hcall') /\ hcall'.stop_early)
            => hcall'.run.invoked = hcall'.sel.max_index + 1
       /\ (/\ Returned(hcall) /\ hcall.stop_early /\ hcall.coarse
           /\ hcall.indices = IdxNone
           /\ Returned(hcall') /\ hcall'.stop_early /\ hcall'.coarse
           /\ hcall'.indices = IdxList(<<0>>)
           /\ hcall'.img = hcall.img
           /\ Len(hcfg.stages) >= 2)
            => hcall'.run.invoked < hcall.run.invoked]_vars

\* C4: a returned call has exactly one entry per distinct selected index,
\* in increasing block order; in coarse mode the entry of stage s is the
\* output of block stage_ends[s]; channel counts do not decrease and
\* spatial sizes do not increase along the list.
C4_OneEntryPerSelectedIndex ==
    Returned(hcall) =>
        LET inter == hcall.run.inter
        IN  /\ Len(inter) = Cardinality(Distinct(hcall.sel.sel))
            /\ {inter[k].blk : k \in 1..Len(inter)} = Distinct(hcall.sel.take)
            /\ hcall.coarse =>
                  Distinct(hcall.sel.take)
                    = {hm.stage_ends[s + 1] : s \in Distinct(hcall.sel.sel)}
            /\ \A k \in 1..(Len(inter) - 1) :
                  /\ inter[k].blk < inter[k + 1].blk
                  /\ inter[k].shape[4] <= inter[k + 1].shape[4]
                  /\ inter[k].shape[2] >= inter[k + 1].shape[2]
                  /\ inter[k].shape[3] >= inter[k + 1].shape[3]

\* C9: a request with an index out of range for the model's current
\* stages (coarse) or blocks is rejected: a call that returns, also after
\* prune_intermediate_layers, carries as many intermediates as distinct
\* indices were requested, each index below the current count.
C9_OutOfRangeIndexRejected ==
    Returned(hcall) =>
        /\ Len(hcall.run.inter) = Cardinality(Distinct(hcall.sel.sel))
        /\ \A s \in Distinct(hcall.sel.take) : s < Len(hm.blocks)

StartsStage(stages, i) ==
    \E k \in 1..Len(stages) : SumSeq(SubSeq(stages, 1, k)) = i
\* the head count of the block before block i (0-based), the constructor's
\* num_heads for block 0
HeadsBefore(i) == IF i = 0 THEN hcfg.num_heads ELSE hm.blocks[i].num_heads

\* C17: for stages of positive depths, block i has dim_out = int(dim_in *
\* dim_mul) and int(previous head count * head_mul) heads when block i - 1
\* is a stage end, every other block keeps its width and its predecessor's
\* head count (so that a width or a head count changes only after a stage
\* end), and each block's dim_in is its predecessor's dim_out.
C17_WidthAndHeadsChangeAfterStageEnd ==
    (/\ hpc = "constructed"
     /\ \A k \in 1..Len(hcfg.stages) : hcfg.stages[k] > 0)
        => /\ Len(hm.blocks) = SumSeq(hcfg.stages)
           /\ \A i \in 0..(Len(hm.blocks) - 1) :
                 LET b == hm.blocks[i + 1]
                 IN  /\ b.dim = (IF i = 0 THEN hcfg.embed_dim ELSE hm.blocks[i].dim_out)
                     /\ IF StartsStage(hcfg.stages, i)
                        THEN /\ 2 * b.dim_out <= b.dim * hcfg.dim_mul2
                             /\ b.dim * hcfg.dim_mul2 < 2 * (b.dim_out + 1)
                             /\ 2 * b.num_heads <= HeadsBefore(i) * hcfg.head_mul2
                             /\ HeadsBefore(i) * hcfg.head_mul2 < 2 * (b.num_heads + 1)
                        ELSE /\ b.dim_out = b.dim
                             /\ b.num_heads = HeadsBefore(i)

\* stages (1, 2, 1) with dim_mul 1.5 and head_mul 2.0: widths 2, 2 -> 3, 3,
\* 3 -> 4 and 1, 2, 2, 4 heads
C17_Witness ==
    /\ hpc = "constructed"
    /\ hcfg.stages = <<1, 2, 1>> /\ hcfg.dim_mul2 = 3
    /\ Len(hm.blocks) = 4
    /\ hm.blocks[1].dim_out = 2 /\ hm.blocks[1].num_heads = 1
    /\ hm.blocks[2].dim = 2 /\ hm.blocks[2].dim_out = 3 /\ hm.blocks[2].num_heads = 2
    /\ hm.blocks[3].dim = 3 /\ hm.blocks[3].dim_out = 3 /\ hm.blocks[3].num_heads = 2
    /\ hm.blocks[4].dim = 3 /\ hm.blocks[4].dim_out = 4 /\ hm.blocks[4].num_heads = 4

\* the 0-based stage of block i: the number of stages that end before it
StageOf(stages, i) ==
    Cardinality({k \in 1..Len(stages) : SumSeq(SubSeq(stages, 1, k)) <= i})
\* the window size C18 states for block i (window_spec is indexed from 1)
LaggedWindow(cfg, i) ==
    IF i \in cfg.global_att_blocks THEN 0
    ELSE IF StartsStage(cfg.stages, i) THEN cfg.window_spec[StageOf(cfg.stages, i)]
    ELSE cfg.window_spec[StageOf(cfg.stages, i) + 1]

\* C18: a block in global_att_blocks has window_size 0; any other block i
\* has window_spec[s - 1] if it is the first block of a stage s >= 1 and
\* window_spec[s] of its own stage s otherwise; and this is so in every
\* state after construction, whatever forward_intermediates and
\* prune_intermediate_layers calls were made.
C18_WindowSizeLagsOneBlock ==
    hpc = "constructed"
        => \A i \in 0..(Len(hm.blocks) - 1) :
              hm.blocks[i + 1].window_size = LaggedWindow(hcfg, i)

\* stages (2, 1, 1), window_spec (4, 2, 4), global_att_blocks {1}: the
\* blocks have window sizes 4, 0, 4 (lagging), 2 (lagging), still so after
\* a forward_intermediates call that returned
C18_Witness ==
    /\ hpc = "constructed"
    /\ hcfg.stages = <<2, 1, 1>> /\ hcfg.window_spec = <<4, 2, 4>>
    /\ hcfg.global_att_blocks = {1}
    /\ Len(hm.blocks) = 4
    /\ [k \in 1..4 |-> hm.blocks[k].window_size] = <<4, 0, 4, 2>>
    /\ hcall.op = "forward_intermediates" /\ hcall.run.err = ""

\* C15: feature_info has one entry per stage, in stage order, entry s
\* naming blocks.<stage_ends[s]>; its num_chs is the channel count of the
\* stage's output and its reduction the ratio between the image size and
\* the stage's output size, for every allowed q_pool (read off a call that
\* returns every stage's output of a model as constructed, on an image
\* the recorded reductions divide).
C15_FeatureInfoMatchesComputation ==
    /\ hpc = "constructed" =>
        /\ Len(hm.feature_info) = Len(hcfg.stages)
        /\ \A s \in 1..Len(hm.feature_info) :
              hm.feature_info[s].module = <<"blocks", hm.stage_ends[s]>>
    /\ (/\ Returned(hcall) /\ hcall.coarse /\ hcall.indices = IdxNone
        /\ Len(hm.blocks) = SumSeq(hcfg.stages)
        /\ Len(hcall.run.inter) = Len(hm.feature_info)
        /\ \A s \in 1..Len(hm.feature_info) :
              /\ hcall.img[3] % hm.feature_info[s].reduction = 0
              /\ hcall.img[4] % hm.feature_info[s].reduction = 0)
        => \A s \in 1..Len(hm.feature_info) :
              /\ hm.feature_info[s].num_chs = hcall.run.inter[s].shape[4]
              /\ hm.feature_info[s].reduction * hcall.run.inter[s].shape[2] = hcall.img[3]
              /\ hm.feature_info[s].reduction * hcall.run.inter[s].shape[3] = hcall.img[4]

----------------------------------------------------------------------------
\* the forward call of the block under SpecBlk has returned or raised
BlkDone == bpc = "done"
BlkTokens(shape) == shape[2] * shape[3]
\* the cases no claim below is held against: a head count that does not
\* divide dim_out, and a map too small to be pooled at all
BlkUsable == bcfg.dim_out % bcfg.num_heads = 0 /\ bx[2] >= 2 /\ bx[3] >= 2

\* C2: a block with window_size > 0 and q_stride (2, 2) never fails,
\* whatever H and W: the partition produces as many windows as the
\* unpartition expects for the pooled size, and at the first residual add
\* the attention branch has the shape of the shortcut.
C2_WindowedPoolingNeverFails ==
    (/\ BlkDone /\ BlkUsable
     /\ bcfg.window_size > 0 /\ bcfg.window_size % 2 = 0
     /\ bcfg.q_stride = <<2, 2>> /\ bcfg.dim # bcfg.dim_out)
        => /\ bres.err = ""
           /\ bres.nwin = bx[1] * bres.per
           /\ bres.attn = bres.shortcut

\* C6 as stated: a query-pooling block with q_stride (2, 2) that returns,
\* its windows put back as they were cut, outputs exactly H*W/4 tokens of
\* exactly dim_in * dim_mul channels.
C6_ExactlyQuarter ==
    (/\ BlkDone /\ BlkUsable /\ bres.err = ""
     /\ bres.nwin = bx[1] * bres.per
     /\ bcfg.q_stride = <<2, 2>>
     /\ bcfg.dim_out = stage_dim_out(bcfg.dim, bmul2)
     /\ bcfg.dim_out # bcfg.dim)
        => /\ 4 * BlkTokens(bres.x) = bx[2] * bx[3]
           /\ 2 * bres.x[4] = bcfg.dim * bmul2

\* C6 on even sizes: for even H and W, an even window_size > 0, and a
\* dim_out = int(dim_in * dim_mul) that differs from dim_in and is
\* divisible by num_heads, the block returns (B, H/2, W/2, dim_out):
\* H*W/4 tokens of int(dim_in * dim_mul) channels.
C6_QuarterOnEvenSizes ==
    (/\ BlkDone
     /\ bcfg.q_stride = <<2, 2>>
     /\ bcfg.dim_out = stage_dim_out(bcfg.dim, bmul2)
     /\ bcfg.dim_out # bcfg.dim
     /\ bcfg.dim_out % bcfg.num_heads = 0
     /\ bcfg.window_size > 0 /\ bcfg.window_size % 2 = 0
     /\ bx[2] % 2 = 0 /\ bx[3] % 2 = 0)
        => /\ bres.err = ""
           /\ bres.x = <<bx[1], bx[2] \div 2, bx[3] \div 2, (bcfg.dim * bmul2) \div 2>>
           /\ 4 * BlkTokens(bres.x) = bx[2] * bx[3]

\* a pooled forward over several windows, with padding before the partition
C6_Witness ==
    /\ BlkDone
    /\ bcfg.q_stride = <<2, 2>>
    /\ bcfg.dim_out = stage_dim_out(bcfg.dim, bmul2)
    /\ bcfg.dim_out # bcfg.dim
    /\ bcfg.window_size = 4
    /\ bx[2] = 6 /\ bx[3] = 2
    /\ bres.err = ""
    /\ bres.nwin = 2 * bx[1]
    /\ bres.x = <<bx[1], 3, 1, bcfg.dim_out>>

\* C8: a block with window_size 0 neither partitions nor unpartitions and
\* completes without error, with or without q_stride.
C8_GlobalBlockCompletes ==
    (BlkDone /\ BlkUsable /\ bcfg.window_size = 0)
        => /\ bres.err = ""
           /\ \A k \in 1..Len(bres.steps) : bres.steps[k] \notin {"Windowing", "Unwindow"}

\* the call under SpecBlk has taken the step named
BlkStepped(name) == BlkDone /\ \E k \in 1..Len(bres.steps) : bres.steps[k] = name
\* what the block does to its own input to make a projected shortcut
ProjPool == <<"proj">> \o (IF bcfg.q_stride # NoneVal THEN <<"pool">> ELSE <<>>)
\* the shape of the projected shortcut: dim_out channels, pooled by self.pool
ProjPoolShape == do_pool(<<bx[1], bx[2], bx[3], bcfg.dim_out>>, bcfg.q_stride).shape

\* C16 as stated: the shortcut is the unmodified block input when dim ==
\* dim_out; when dim != dim_out it is the projection of the input as it
\* was before norm1, pooled with the pool the attention applies to its
\* queries.
C16_ShortcutOfPreNormInput ==
    BlkStepped("ShortcutCompute")
        => IF bcfg.dim = bcfg.dim_out
           THEN bres.sc_src = <<"input">> /\ bres.shortcut = bx
           ELSE /\ bres.sc_src = <<"input">> \o ProjPool
                /\ bres.shortcut = ProjPoolShape
                /\ (BlkStepped("Attention") => bres.sc_pooled = bres.q_pooled)

\* C16, the projected input being the output of norm1: the shortcut is the
\* unmodified block input when dim == dim_out; when dim != dim_out it is
\* the projection of norm1's output, pooled exactly when (and with the
\* stride with which) the attention pools its queries, to dim_out channels.
C16_ShortcutOfNormedInput ==
    BlkStepped("ShortcutCompute")
        => IF bcfg.dim = bcfg.dim_out
           THEN bres.sc_src = <<"input">> /\ bres.shortcut = bx
           ELSE /\ bres.sc_src = <<"input", "norm1">> \o ProjPool
                /\ bres.shortcut = ProjPoolShape
                /\ (BlkStepped("Attention") => bres.sc_pooled = bres.q_pooled)

\* a block that changes its width and pools: the shortcut is the pooled
\* projection, of the size the attention returns
C16_Witness ==
    /\ BlkStepped("Output")
    /\ bcfg.dim = 2 /\ bcfg.dim_out = 3 /\ bcfg.q_stride = <<2, 2>>
    /\ bx = <<2, 5, 4, 2>>
    /\ bres.sc_src = <<"input", "norm1", "proj", "pool">>
    /\ bres.shortcut = <<2, 2, 2, 3>>
    /\ bres.sc_pooled /\ bres.q_pooled

\* the steps of a forward in the order C19 gives, the two optional ones
\* present when the block's window_size > 0
StepsInOrder(windowed) ==
    <<"Input", "PreNorm1", "ShortcutCompute">>
        \o (IF windowed THEN <<"Windowing">> ELSE <<>>)
        \o <<"Attention">>
        \o (IF windowed THEN <<"Unwindow">> ELSE <<>>)
        \o <<"ResidualAdd1", "PreNorm2", "MLP", "ResidualAdd2", "Output">>

\* C19: every forward (of a block whose head count divides dim_out, on a
\* map that can be pooled) passes through Input, PreNorm1, ShortcutCompute,
\* Windowing, Attention, Unwindow, ResidualAdd1, PreNorm2, MLP,
\* ResidualAdd2, Output in this order, each once, Windowing and Unwindow
\* both taken when window_size > 0 and both skipped when it is 0.
C19_StepsInOrder ==
    (BlkDone /\ BlkUsable) => bres.steps = StepsInOrder(bcfg.window_size > 0)

\* element (b, h, w, c), 0-based, of a (B, H, W, C) tensor
ElemAt(t, b, h, w, c) ==
    t.data[((b * t.shape[2] + h) * t.shape[3] + w) * t.shape[4] + c + 1]

\* C20: the partition of a (B, H, W, C) map returns Hp and Wp, the
\* smallest multiples of ws that are >= H and >= W, and B * (Hp/ws) *
\* (Wp/ws) windows of ws x ws; element (b, h, w) of the map is in window
\* b * (Hp/ws) * (Wp/ws) + (h div ws) * (Wp/ws) + (w div ws) at offset
\* (h mod ws, w mod ws); every position with h >= H or w >= W holds zero;
\* so nothing is added on the top or on the left.  Checked of HieraDet's
\* window_partition and of the padding and partition of DaViT's
\* SpatialBlock, on maps whose elements are non-zero and distinct.
C20_PartitionPlacesElements ==
    wpc \in {"partitioned", "done"} =>
        LET B == wx.shape[1]
            H == wx.shape[2]
            W == wx.shape[3]
            Hp == wpad[1]
            Wp == wpad[2]
            nW == Wp \div wsize
            nH == Hp \div wsize
        IN  /\ Hp % wsize = 0 /\ Hp >= H /\ Hp - wsize < H
            /\ Wp % wsize = 0 /\ Wp >= W /\ Wp - wsize < W
            /\ wwin.shape = <<B * nH * nW, wsize, wsize, wx.shape[4]>>
            /\ Len(wwin.data) = B * Hp * Wp * wx.shape[4]
            /\ \A b \in 0..(B - 1), h \in 0..(Hp - 1), w \in 0..(Wp - 1),
                  c \in 0..(wx.shape[4] - 1) :
                  ElemAt(wwin, b * nH * nW + (h \div wsize) * nW + (w \div wsize),
                         h % wsize, w % wsize, c)
                    = IF h < H /\ w < W THEN ElemAt(wx, b, h, w, c) ELSE 0

\* a 3 x 4 map of a batch of two cut into 2 x 2 windows of 2 x 2: one row
\* of padding at the bottom, the first element in place, the last a zero
C20_Witness ==
    /\ wpc = "partitioned" /\ wimpl = "hieradet"
    /\ wx.shape = <<2, 3, 4, 2>> /\ wsize = 2
    /\ wpad = <<4, 4>>
    /\ wwin.shape = <<8, 2, 2, 2>>
    /\ wwin.data[1] = wx.data[1]
    /\ wwin.data[Len(wwin.data)] = 0
    /\ ElemAt(wwin, 5, 1, 0, 1) = ElemAt(wx, 1, 1, 2, 1)

\* C21: for every patch-embedded map of size h x w the position bias is
\* h x w: the tiled window bias has the spatial size of the interpolated
\* global bias, the two add, and the sum adds to x, whether or not h and
\* w are multiples of window_spec[0] (read off a forward_features call
\* whose patch embedding succeeded).
C21_PosEmbedFitsEverySize ==
    (/\ hpc = "constructed" /\ hfwd.op = "forward_features"
     /\ HieraPatchEmbed_forward(hcfg, hfwd.img).err = "")
        => /\ embed(hcfg, HieraPatchEmbed_forward(hcfg, hfwd.img))
                = HieraPatchEmbed_forward(hcfg, hfwd.img)
           /\ hfwd.run.invoked > 0

\* the outcome r of a forward of block b: a block that pools its queries
\* pooled its shortcut, and if the call came to the first residual add the
\* two operands had one shape
ResidualOperandsAgree(b, r) ==
    /\ (b.q_stride # NoneVal /\ r.err # "pool") => r.sc_pooled
    /\ r.attn # <<>> => r.attn = r.shortcut

\* C22: in every HieraDet that construction accepts, dim_mul = 1 included,
\* every block that pools its queries also pools its shortcut, and at the
\* first residual add of every block the shortcut and the output of the
\* attention branch have the same shape (each block run on a 4 x 8 map of
\* its own width, a multiple of every window size).
C22_PooledQueriesPooledShortcut ==
    hpc = "constructed"
        => \A k \in 1..Len(hm.blocks) :
              ResidualOperandsAgree(hm.blocks[k],
                  MultiScaleBlock_forward(hm.blocks[k], <<2, 4, 8, hm.blocks[k].dim>>))

\* the token axes of q, k and v
TokenAxes == {"q.token", "k.token", "v.token"}

\* C23 as stated: the softmax of ChannelAttention's K-transpose-times-V
\* matrix is over the token axis, the axis contracted in that product, not
\* over a channel axis and not over queries.
C23_SoftmaxOverTokenAxis ==
    (apc = "done" /\ acfg.kind = "channel")
        => /\ asoft.over \in TokenAxes
           /\ asoft.over \in {asoft.contracted[1], asoft.contracted[2]}
           /\ asoft.over # "q.token"

\* C23, the axis being a channel axis: the product K-transpose-times-V of
\* ChannelAttention sums over the tokens of k and v and leaves a head_dim x
\* head_dim matrix per head with no token axis; its softmax is over the
\* last axis, the channels of v, never over an axis of the queries; the
\* softmax of WindowAttention is over the tokens of the keys.
C23_SoftmaxOverChannelsOfV ==
    apc = "done"
        => /\ acfg.kind = "channel"
              => /\ asoft.contracted = <<"k.token", "v.token">>
                 /\ asoft.axes = <<"batch", "head", "k.channel", "v.channel">>
                 /\ asoft.over = "v.channel"
                 /\ ares.err = "" => ares.attention[4] = acfg.dim \div acfg.num_heads
           /\ acfg.kind = "window"
              => /\ asoft.contracted = <<"q.channel", "k.channel">>
                 /\ asoft.over = "k.token"
                 /\ ares.err = "" => ares.attention[4] = ax[2]

\* ChannelAttention with one head of width three on four tokens: the
\* softmax runs over three entries, not four
C23_Witness ==
    /\ apc = "done" /\ acfg.kind = "channel"
    /\ acfg.dim = 3 /\ acfg.num_heads = 1
    /\ ax = <<1, 4, 3>>
    /\ ares.err = "" /\ ares.attention = <<1, 1, 3, 3>>
    /\ asoft.over = "v.channel"

\* the positions of a sub-module's calls in the calls of the forward
CallsOf(name) == {k \in 1..Len(kres.steps) : kres.steps[k] = name}
\* every call of sub-module a comes before every call of sub-module b
CalledBefore(a, b) == \A i \in CallsOf(a), j \in CallsOf(b) : i < j

\* C24: in every forward of a SpatialBlock or ChannelBlock (whose heads
\* divide its width) cpe[0] is called exactly once, before norm1 and the
\* attention; cpe[1] exactly once, after the first residual add and before
\* norm2 and the MLP (which run exactly when ffn is set); cpe[0] and cpe[1]
\* are two modules; and the call returns tokens of the shape, and the
\* size, it was given.
C24_CpeBeforeEachSubLayer ==
    (kpc = "done" /\ kcfg.dim % kcfg.num_heads = 0)
        => /\ kres.err = ""
           /\ kcfg.cpe[1] # kcfg.cpe[2]
           /\ Cardinality(CallsOf(kcfg.cpe[1].name)) = 1
           /\ Cardinality(CallsOf(kcfg.cpe[2].name)) = 1
           /\ Cardinality(CallsOf("norm1")) = 1 /\ Cardinality(CallsOf("attn")) = 1
           /\ Cardinality(CallsOf("add1")) = 1
           /\ CalledBefore(kcfg.cpe[1].name, "norm1") /\ CalledBefore("norm1", "attn")
           /\ CalledBefore("attn", "add1") /\ CalledBefore("add1", kcfg.cpe[2].name)
           /\ CalledBefore(kcfg.cpe[2].name, "norm2") /\ CalledBefore("norm2", "mlp")
           /\ Cardinality(CallsOf("mlp")) = (IF kcfg.ffn THEN 1 ELSE 0)
           /\ Cardinality(CallsOf("norm2")) = (IF kcfg.ffn THEN 1 ELSE 0)
           /\ kres.x = kx
           /\ kres.size = ksize

\* a SpatialBlock with windows of 4 x 4 on a 5 x 3 map, padded to 8 x 4
C24_Witness ==
    /\ kpc = "done"
    /\ kcfg.kind = "spatial" /\ kcfg.window_size = 4 /\ kcfg.ffn
    /\ kcfg.dim = 2 /\ kcfg.num_heads = 2
    /\ kx = <<2, 15, 2>> /\ ksize = <<5, 3>>
    /\ kres.err = ""
    /\ kres.steps = <<"cpe.0", "norm1", "attn", "add1", "cpe.1", "norm2", "mlp", "add2">>
    /\ kres.x = kx /\ kres.size = ksize

\* the layers of every stage of the DaViT, in traversal order
RECURSIVE LayersFrom(_)
LayersFrom(s) == IF s > Len(dm.stages) THEN <<>> ELSE dm.stages[s] \o LayersFrom(s + 1)

\* the rates of a sequence of blocks follow a linear schedule: entry k
\* (from 1) is the fraction idx[k] / (steps - 1) of drop_path_rate, they
\* do not decrease, the first is 0 and, of several, the last is
\* drop_path_rate
LinearSchedule(layers, idx, steps) ==
    /\ \A k \in 1..Len(layers) :
          /\ idx[k] < steps
          /\ layers[k].drop_path[1] * (steps - 1) = idx[k] * layers[k].drop_path[2]
    /\ \A k \in 1..(Len(layers) - 1) :
          layers[k].drop_path[1] * layers[k + 1].drop_path[2]
              <= layers[k + 1].drop_path[1] * layers[k].drop_path[2]
    /\ Len(layers) >= 1 => layers[1].drop_path[1] = 0
    /\ Len(layers) >= 2 =>
          layers[Len(layers)].drop_path[1] = layers[Len(layers)].drop_path[2]

\* C25: the stochastic-depth rates assigned at construction are linear in
\* depth: non-decreasing in traversal order, 0 for the first block and
\* drop_path_rate for the last; HieraDet block i has entry i of a schedule
\* of depth entries; the DaViT layer at global block g and attention slot a
\* has entry 2 * g + a of a schedule of 2 * total_blocks entries, and no
\* attention_types tuple makes an index fall outside the schedule.
C25_DropPathLinearInDepth ==
    /\ hpc = "constructed"
          => LinearSchedule(hm.blocks, [k \in 1..Len(hm.blocks) |-> k - 1],
                            Len(hm.blocks))
    /\ (/\ dpc = "failed" /\ DaViTLengthsConsistent
        /\ \A s \in 1..Len(dcfg.depths) : dcfg.depths[s] > 0)
          => dm.err # "index"
    /\ dpc = "constructed"
          => LinearSchedule(LayersFrom(1),
                [k \in 1..Len(LayersFrom(1)) |->
                    2 * ((k - 1) \div Len(dcfg.attention_types))
                        + ((k - 1) % Len(dcfg.attention_types))],
                2 * SumSeq(dcfg.depths))

\* the last call was a prune_intermediate_layers that returned
Pruned == hpc = "constructed" /\ hcall.op = "prune_intermediate_layers" /\ hcall.sel.err = ""

\* C26: prune_intermediate_layers(indices) keeps exactly the first
\* max_index + 1 blocks and removes the rest; the number of blocks never
\* increases; a second call with the same indices leaves the same blocks;
\* and forward_intermediates with the same indices returns after the prune
\* the entries it returned before.
C26_PruneKeepsNeededBlocks ==
    Pruned
        => /\ Len(hm.blocks) = hcall.sel.max_index + 1
           /\ hm.blocks = SubSeq(hcall.blocks_before, 1, Len(hm.blocks))
           /\ Len(hm.blocks) <= hcall.nblocks
           /\ prune_intermediate_layers(hm, hcall.indices, hcall.coarse).blocks = hm.blocks
           /\ hcall.after.inter = hcall.before.inter


\* ---------------------------------------------------------------------
\* DaViT checkpoint filter (davit.py checkpoint_filter_fn)
\* A parameter name is the sequence of its pieces, "." included; a state
\* dict is the sequence of its <<key, value>> items in insertion order.

\* str.replace(old, new): every non-overlapping occurrence, left to right
RECURSIVE str_replace(_, _, _)
str_replace(s, old, new) ==
    IF Len(s) < Len(old) THEN s
    ELSE IF SubSeq(s, 1, Len(old)) = old
         THEN new \o str_replace(SubSeq(s, Len(old) + 1, Len(s)), old, new)
         ELSE <<Head(s)>> \o str_replace(Tail(s), old, new)

dict_has(d, k) == \E i \in 1..Len(d) : d[i][1] = k

dict_get(d, k) == d[CHOOSE i \in 1..Len(d) : d[i][1] = k][2]

\* d[k] = v: an existing key keeps its place, a new key goes last
dict_set(d, k, v) ==
    IF dict_has(d, k)
    THEN [i \in 1..Len(d) |-> IF d[i][1] = k THEN <<k, v>> ELSE d[i]]
    ELSE Append(d, <<k, v>>)

Tensor(id) == [tensor |-> id]

Nested(items) == [dict |-> items]

\* the key rewrite of the loop body
filter_key(k) ==
    str_replace(str_replace(k, <<"main_blocks", ".">>, <<"stages", ".", "stage_">>),
                <<"head", ".">>, <<"head", ".", "fc", ".">>)

RECURSIVE filter_loop(_, _)
filter_loop(items, out_dict) ==
    IF items = <<>> THEN out_dict
    ELSE filter_loop(Tail(items),
                     dict_set(out_dict, filter_key(items[1][1]), items[1][2]))

checkpoint_filter_fn(state_dict) ==
    IF dict_has(state_dict, <<"head", ".", "norm", ".", "weight">>)
    THEN state_dict
    ELSE filter_loop(IF dict_has(state_dict, <<"state_dict">>)
                     THEN dict_get(state_dict, <<"state_dict">>).dict
                     ELSE state_dict,
                     <<>>)

MaxFilterStages == 2

\* the decimal name of a stage index
StageName(i) == <<"0", "1", "2", "3", "4", "5", "6", "7", "8", "9">>[i + 1]

\* the parameter names of a DaViT with n stages, one parameter per stage:
\* stages.stage_<i> (add_module), norms, head with its fc layer
DaViT_state_dict_keys(n) ==
    [i \in 1..n |-> <<"stages", ".", "stage_", StageName(i - 1), ".", "weight">>]
        \o << <<"norms", ".", "weight">>, <<"norms", ".", "bias">>,
              <<"head", ".", "fc", ".", "weight">>, <<"head", ".", "fc", ".", "bias">> >>

\* the same parameters under the legacy names
Legacy_state_dict_keys(n) ==
    [i \in 1..n |-> <<"main_blocks", ".", StageName(i - 1), ".", "weight">>]
        \o << <<"norms", ".", "weight">>, <<"norms", ".", "bias">>,
              <<"head", ".", "weight">>, <<"head", ".", "bias">> >>

\* a checkpoint that is not a legacy one carries head.norm.weight
KeyPool ==
    DaViT_state_dict_keys(MaxFilterStages) \o
    SubSeq(Legacy_state_dict_keys(MaxFilterStages), 1, MaxFilterStages) \o
    << <<"head", ".", "weight">>, <<"head", ".", "norm", ".", "weight">> >>

RECURSIVE Masked(_, _, _)
Masked(keys, mask, i) ==
    IF i > Len(keys) THEN <<>>
    ELSE (IF mask[i] THEN << <<keys[i], Tensor(i)>> >> ELSE <<>>)
             \o Masked(keys, mask, i + 1)

FilterInit ==
    /\ \E mask \in [1..Len(KeyPool) -> BOOLEAN], wrapped \in BOOLEAN :
          LET items == Masked(KeyPool, mask, 1)
          IN  fsd = IF wrapped THEN << << <<"state_dict">>, Nested(items) >> >>
                               ELSE items
    /\ fout = <<>>
    /\ fout2 = <<>>
    /\ fpc = "loaded"

FilterApply ==
    /\ fpc = "loaded"
    /\ fout' = checkpoint_filter_fn(fsd)
    /\ fpc' = "filtered"
    /\ UNCHANGED <<fsd, fout2, winVars, blkVars, hieraVars, patchVars, davitVars,
                   attnVars, dblkVars, loaderVars, optVars>>

FilterAgain ==
    /\ fpc = "filtered"
    /\ fout2' = checkpoint_filter_fn(fout)
    /\ fpc' = "refiltered"
    /\ UNCHANGED <<fsd, fout, winVars, blkVars, hieraVars, patchVars, davitVars,
                   attnVars, dblkVars, loaderVars, optVars>>

FilterNext == FilterApply \/ FilterAgain

SpecFilterInit == FilterInit /\ WinIdle /\ BlkIdle /\ HieraIdle /\ PatchIdle /\ DaViTIdle /\ AttnIdle /\ DBlkIdle /\ LoaderIdle /\ OptIdle

SpecFilter == SpecFilterInit /\ [][FilterNext]_vars

Filtered == fpc \in {"filtered", "refiltered"}

KeysOf(d) == {d[i][1] : i \in 1..Len(d)}

\* every key is a parameter name of a DaViT
OwnNaming(d) ==
    /\ d # <<>>
    /\ KeysOf(d) \subseteq {DaViT_state_dict_keys(MaxFilterStages)[i] :
                               i \in 1..(MaxFilterStages + 4)}

HasPiece(k, piece) == \E i \in 1..Len(k) : k[i] = piece

\* C27: checkpoint_filter_fn keeps the values and the number of entries,
\* rewrites 'main_blocks.' in legacy keys to 'stages.stage_', returns a
\* state dict that is already in the model's own naming with every key
\* unchanged, and filtering twice gives what filtering once gives.
C27_FilterIsKeyRewrite ==
    Filtered
        => /\ Len(fout) = Len(fsd)
           /\ \A i \in 1..Min(Len(fout), Len(fsd)) : fout[i][2] = fsd[i][2]
           /\ \A i \in 1..Len(fout) : ~HasPiece(fout[i][1], "main_blocks")
           /\ OwnNaming(fsd) => fout = fsd
           /\ fpc = "refiltered" => fout2 = fout

\* ---------------------------------------------------------------------
\* PrefetchLoader.__iter__ (data/loader.py), one action per step of the
\* generator; the consumer resumes it after every yield.

MaxBatches == 3

MaxBatchId == 2

\* a host batch of the underlying loader
HostBatch(i, t) == [input |-> [data |-> i, device |-> "cpu", normalised |-> FALSE,
                               erased |-> FALSE],
                    target |-> [data |-> t, device |-> "cpu"]]

\* next_input.cuda().float().sub_(mean).div_(std), random erasing if set,
\* and next_target.cuda(): what the side stream's work produces
Prefetched(b, erase) ==
    [input |-> [data |-> b.input.data, device |-> "cuda", normalised |-> TRUE,
                erased |-> erase],
     target |-> [data |-> b.target.data, device |-> "cuda"],
     batch |-> b.batch]

\* the work the with-block enqueues on self.stream for batch k
StreamWork(k, erase) ==
    << [batch |-> k, op |-> "input.cuda"], [batch |-> k, op |-> "target.cuda"],
       [batch |-> k, op |-> "normalise"] >>
        \o (IF erase THEN << [batch |-> k, op |-> "random_erasing"] >> ELSE <<>>)

\* current_stream().wait_stream(self.stream) without effect
wait_stream_noop(waited, stream) == waited

\* current_stream().wait_stream(self.stream): the current stream waits for
\* all the work enqueued on the stream so far
wait_stream(waited, stream) == Len(stream)

\* whether all the side-stream work of batch k is covered by a wait
WorkWaited(k, stream, waited) ==
    /\ \E j \in 1..Len(stream) : stream[j].batch = k
    /\ \A j \in 1..Len(stream) : stream[j].batch = k => j <= waited

\* the record of one yield: the pair handed out, the batch it came from,
\* and the state of the streams at that moment
Yielded(cur, stream, waited) ==
    [input |-> cur.input, target |-> cur.target, batch |-> cur.batch,
     waited |-> WorkWaited(cur.batch, stream, waited),
     enqueued |-> {stream[j].batch : j \in 1..Len(stream)},
     next_waited |-> WorkWaited(cur.batch + 1, stream, waited)]

LoaderInit ==
    /\ \E n \in 0..MaxBatches :
          \E ins \in [1..n -> 1..MaxBatchId], tgs \in [1..n -> 1..MaxBatchId] :
              lbatches = [k \in 1..n |-> HostBatch(ins[k], tgs[k])]
    /\ lerase \in BOOLEAN
    /\ lidx = 0
    /\ lfirst = TRUE
    /\ lcur = NoneVal
    /\ lnext = NoneVal
    /\ lstream = <<>>
    /\ lwaited = 0
    /\ lout = <<>>
    /\ lpc = "for"

\* for next_input, next_target in self.loader: the next batch, or the end
LoaderFetch ==
    /\ lpc = "for"
    /\ IF lidx < Len(lbatches)
       THEN /\ lidx' = lidx + 1
            /\ lnext' = [input |-> lbatches[lidx + 1].input,
                         target |-> lbatches[lidx + 1].target, batch |-> lidx + 1]
            /\ lpc' = "with_stream"
       ELSE /\ lpc' = "final_yield"
            /\ UNCHANGED <<lidx, lnext, optVars>>
    /\ UNCHANGED <<lbatches, lerase, lfirst, lcur, lstream, lwaited, lout, winVars, blkVars, hieraVars, patchVars, davitVars, attnVars, dblkVars, filterVars, optVars>>

\* with torch.cuda.stream(self.stream): copy, normalise, erase
LoaderEnqueue ==
    /\ lpc = "with_stream"
    /\ lstream' = lstream \o StreamWork(lnext.batch, lerase)
    /\ lnext' = Prefetched(lnext, lerase)
    /\ lpc' = "if_first"
    /\ UNCHANGED <<lbatches, lerase, lidx, lfirst, lcur, lwaited, lout, winVars, blkVars, hieraVars, patchVars, davitVars, attnVars, dblkVars, filterVars, optVars>>

\* if not first: yield input, target
LoaderYield ==
    /\ lpc = "if_first"
    /\ ~lfirst
    /\ lout' = Append(lout, Yielded(lcur, lstream, lwaited))
    /\ lpc' = "yielded"
    /\ UNCHANGED <<lbatches, lerase, lidx, lfirst, lcur, lnext, lstream, lwaited, winVars, blkVars, hieraVars, patchVars, davitVars, attnVars, dblkVars, filterVars, optVars>>

\* else: first = False
LoaderFirst ==
    /\ lpc = "if_first"
    /\ lfirst
    /\ lfirst' = FALSE
    /\ lpc' = "wait_stream"
    /\ UNCHANGED <<lbatches, lerase, lidx, lcur, lnext, lstream, lwaited, lout, winVars, blkVars, hieraVars, patchVars, davitVars, attnVars, dblkVars, filterVars, optVars>>

\* the consumer asks for the next pair: the generator resumes after its yield
LoaderResume ==
    /\ lpc = "yielded"
    /\ lpc' = "wait_stream"
    /\ UNCHANGED <<lbatches, lerase, lidx, lfirst, lcur, lnext, lstream, lwaited, lout, winVars, blkVars, hieraVars, patchVars, davitVars, attnVars, dblkVars, filterVars, optVars>>

\* torch.cuda.current_stream().wait_stream(self.stream);
\* input = next_input; target = next_target
LoaderWait ==
    /\ lpc = "wait_stream"
    /\ lwaited' = wait_stream(lwaited, lstream)
    /\ lcur' = lnext
    /\ lpc' = "for"
    /\ UNCHANGED <<lbatches, lerase, lidx, lfirst, lnext, lstream, lout, winVars, blkVars, hieraVars, patchVars, davitVars, attnVars, dblkVars, filterVars, optVars>>

\* the yield input, target after the loop; input is unbound when the loop
\* body never ran
LoaderFinalYield ==
    /\ lpc = "final_yield"
    /\ IF lcur = NoneVal
       THEN /\ lpc' = "UnboundLocalError"
            /\ lout' = lout
       ELSE /\ lout' = Append(lout, Yielded(lcur, lstream, lwaited))
            /\ lpc' = "final_yielded"
    /\ UNCHANGED <<lbatches, lerase, lidx, lfirst, lcur, lnext, lstream, lwaited, winVars, blkVars, hieraVars, patchVars, davitVars, attnVars, dblkVars, filterVars, optVars>>

\* resumed after the last yield the generator returns: StopIteration
LoaderStop ==
    /\ lpc = "final_yielded"
    /\ lpc' = "StopIteration"
    /\ UNCHANGED <<lbatches, lerase, lidx, lfirst, lcur, lnext, lstream, lwaited, lout, winVars, blkVars, hieraVars, patchVars, davitVars, attnVars, dblkVars, filterVars, optVars>>

LoaderNext ==
    \/ LoaderFetch
    \/ LoaderEnqueue
    \/ LoaderYield
    \/ LoaderFirst
    \/ LoaderResume
    \/ LoaderWait
    \/ LoaderFinalYield
    \/ LoaderStop

SpecLoaderInit == LoaderInit /\ WinIdle /\ BlkIdle /\ HieraIdle /\ PatchIdle /\ DaViTIdle /\ AttnIdle /\ DBlkIdle /\ FilterIdle /\ OptIdle

SpecLoader == SpecLoaderInit /\ [][LoaderNext]_vars

\* the iteration is over: the generator returned or raised
LoaderOver == lpc \in {"StopIteration", "UnboundLocalError"}

\* the pairs yielded so far are the first batches of the loader, in order,
\* each input with its own target
YieldedInOrder ==
    /\ Len(lout) <= Len(lbatches)
    /\ \A k \in 1..Len(lout) :
          /\ lout[k].batch = k
          /\ lout[k].input.data = lbatches[k].input.data
          /\ lout[k].target.data = lbatches[k].target.data

\* C28: iterating a PrefetchLoader yields exactly len(loader) pairs, every
\* batch of the underlying loader once and in its order, each input with
\* its own target, for every loader length including 0 and 1, and the
\* iteration then terminates.
C28_YieldsEveryBatchOnce ==
    /\ YieldedInOrder
    /\ LoaderOver => (lpc = "StopIteration" /\ Len(lout) = Len(lbatches))

\* C29: every batch is yielded only after the current stream was made to
\* wait on the prefetch stream at a point after that batch's copy and
\* normalisation were enqueued there; when a batch that is not the last is
\* yielded, the work of the next batch is already enqueued and not yet
\* waited on.
C29_YieldOnlyAfterWait ==
    \A k \in 1..Len(lout) :
        /\ lout[k].waited
        /\ lout[k].batch < Len(lbatches)
              => /\ (lout[k].batch + 1) \in lout[k].enqueued
                 /\ ~lout[k].next_waited

\* a batch has been yielded while the next one's work is enqueued
C29_Witness ==
    /\ lpc = "yielded"
    /\ Len(lout) >= 2
    /\ lout[Len(lout)].waited
    /\ (lout[Len(lout)].batch + 1) \in lout[Len(lout)].enqueued
    /\ ~lout[Len(lout)].next_waited
    /\ lwaited < Len(lstream)

\* ---------------------------------------------------------------------
\* Optimizer factory (timm/optim/optim_factory.py)
\* A parameter is [name, ndim, requires_grad], its name the sequence of its
\* pieces; an optimizer name is the sequence of its words between "_"; a
\* weight decay is the fraction <<numerator, denominator>>.

MaxWeightDecay == 2

MaxLr == 2

MaxNdim == 2

endswith(name, suffix) ==
    /\ Len(name) >= Len(suffix)
    /\ SubSeq(name, Len(name) - Len(suffix) + 1, Len(name)) = suffix

FracEq(a, b) == a[1] * b[2] = b[1] * a[2]

\* str.lower() on the words used as optimizer names
lower(word) ==
    CASE word = "SGD" -> "sgd"
      [] word = "AdamW" -> "adamw"
      [] word = "Lookahead" -> "lookahead"
      [] OTHER -> word

\* the frozen weights are not skipped
add_weight_decay_frozen(model, weight_decay, skip_list) ==
    LET no_decay(p) == \/ p.ndim = 1
                       \/ endswith(p.name, <<".", "bias">>)
                       \/ p.name \in skip_list
    IN  << [params |-> SelectSeq(model, no_decay), weight_decay |-> <<0, 1>>],
           [params |-> SelectSeq(model, LAMBDA p : ~no_decay(p)),
            weight_decay |-> weight_decay] >>

add_weight_decay(model, weight_decay, skip_list) ==
    LET no_decay(p) == /\ p.requires_grad
                       /\ \/ p.ndim = 1
                          \/ endswith(p.name, <<".", "bias">>)
                          \/ p.name \in skip_list
        decay(p) == p.requires_grad /\ ~no_decay(p)
    IN  << [params |-> SelectSeq(model, no_decay), weight_decay |-> <<0, 1>>],
           [params |-> SelectSeq(model, decay), weight_decay |-> weight_decay] >>

\* the names the if/elif chain knows
OptimizerNames ==
    {"sgd", "adam", "adamw", "nadam", "radam", "adadelta", "rmsprop", "rmsproptf",
     "novograd"}

create_optimizer(args, model, filter_bias_and_bn) ==
    LET opt_split == [i \in 1..Len(args.opt) |-> lower(args.opt[i])]
        compensated == opt_split \in {<<"adamw">>, <<"radam">>}
        wd == IF compensated THEN <<args.weight_decay, args.lr>>
                             ELSE <<args.weight_decay, 1>>
        filtered == wd[1] # 0 /\ filter_bias_and_bn
        weight_decay == IF filtered THEN <<0, 1>> ELSE wd
        parameters == IF filtered
                      THEN add_weight_decay(model, wd, {})
                      ELSE << [params |-> model, weight_decay |-> weight_decay] >>
        opt_lower == opt_split[Len(opt_split)]
    IN  IF opt_lower \notin OptimizerNames
        THEN [err |-> "AssertionError"]
        ELSE [err |-> "", kind |-> opt_lower, param_groups |-> parameters,
              weight_decay |-> weight_decay,
              lookahead |-> Len(opt_split) > 1 /\ opt_split[1] = "lookahead"]

ParamNames == << <<"fc", ".", "weight">>, <<"fc", ".", "bias">>, <<"bias">> >>

OptChoices ==
    {<<"sgd">>, <<"SGD">>, <<"adam">>, <<"AdamW">>, <<"radam">>, <<"rmsproptf">>,
     <<"lookahead", "adamw">>, <<"Lookahead", "sgd">>, <<"lamb">>}

RECURSIVE Present(_, _)
Present(entries, i) ==
    IF i > Len(entries) THEN <<>>
    ELSE (IF entries[i].ndim = 0 THEN <<>> ELSE <<entries[i]>>) \o Present(entries, i + 1)

\* named_parameters(): any of the names, absent (ndim 0) or of 1..MaxNdim
\* dimensions, trainable or frozen
OptInit ==
    /\ \E nd \in [1..Len(ParamNames) -> 0..MaxNdim],
          rg \in [1..Len(ParamNames) -> BOOLEAN] :
          /\ \A i \in 1..Len(ParamNames) : nd[i] = 0 => rg[i]
          /\ omodel = Present([i \in 1..Len(ParamNames) |->
                                  [name |-> ParamNames[i], ndim |-> nd[i],
                                   requires_grad |-> rg[i]]], 1)
    /\ \E opt \in OptChoices, wd \in 0..MaxWeightDecay, lr \in 1..MaxLr :
          oargs = [opt |-> opt, weight_decay |-> wd, lr |-> lr]
    /\ ofilter \in BOOLEAN
    /\ oopt = NoneVal
    /\ opc = "ready"

OptCreate ==
    /\ opc = "ready"
    /\ oopt' = create_optimizer(oargs, omodel, ofilter)
    /\ opc' = "created"
    /\ UNCHANGED <<oargs, omodel, ofilter, winVars, blkVars, hieraVars, patchVars, davitVars, attnVars, dblkVars, filterVars, loaderVars>>

OptNext == OptCreate

SpecOptInit == OptInit /\ WinIdle /\ BlkIdle /\ HieraIdle /\ PatchIdle /\ DaViTIdle /\ AttnIdle /\ DBlkIdle /\ FilterIdle /\ LoaderIdle

SpecOpt == SpecOptInit /\ [][OptNext]_vars

\* create_optimizer returned for a non-zero weight decay with
\* filter_bias_and_bn=True
CreatedFiltered ==
    /\ opc = "created"
    /\ oopt.err = ""
    /\ oargs.weight_decay # 0
    /\ ofilter

InGroup(p, g) == \E i \in 1..Len(g.params) : g.params[i] = p

ExemptFromDecay(p) == p.ndim = 1 \/ endswith(p.name, <<".", "bias">>)

\* every trainable parameter is in exactly one of the two groups, the
\* exempt ones in the group without decay, and frozen ones are in neither
TwoGroupsPartition ==
    /\ Len(oopt.param_groups) = 2
    /\ FracEq(oopt.param_groups[1].weight_decay, <<0, 1>>)
    /\ FracEq(oopt.weight_decay, <<0, 1>>)
    /\ \A i \in 1..Len(omodel) :
          LET p == omodel[i]
          IN  /\ InGroup(p, oopt.param_groups[1]) = (p.requires_grad /\ ExemptFromDecay(p))
              /\ InGroup(p, oopt.param_groups[2]) = (p.requires_grad /\ ~ExemptFromDecay(p))
    /\ \A g \in 1..2 :
          \A i, j \in 1..Len(oopt.param_groups[g].params) :
              oopt.param_groups[g].params[i] = oopt.param_groups[g].params[j] => i = j

\* C30 as stated: with a non-zero weight decay and filter_bias_and_bn=True
\* the trainable parameters are split into two groups, the 1-D and '.bias'
\* ones with weight decay 0 and all others with the configured weight decay,
\* frozen ones in neither, and the optimizer-level weight decay is 0.
C30_DecayGroupGetsConfiguredDecay ==
    CreatedFiltered
        => /\ TwoGroupsPartition
           /\ FracEq(oopt.param_groups[2].weight_decay, <<oargs.weight_decay, 1>>)

\* C30 (amended): the same split, where the group of the other parameters
\* gets the configured weight decay divided by the learning rate when the
\* lower-cased optimizer name is exactly 'adamw' or 'radam', and the
\* configured weight decay for every other optimizer name.
C30_DecayGroupGetsEffectiveDecay ==
    CreatedFiltered
        => /\ TwoGroupsPartition
           /\ FracEq(oopt.param_groups[2].weight_decay,
                     IF Len(oargs.opt) = 1 /\ lower(oargs.opt[1]) \in {"adamw", "radam"}
                     THEN <<oargs.weight_decay, oargs.lr>>
                     ELSE <<oargs.weight_decay, 1>>)

\* an AdamW optimizer was created with a learning rate other than 1 for a
\* model with a frozen parameter, an exempt one and a decayed one
C30_Witness ==
    /\ CreatedFiltered
    /\ oopt.kind = "adamw"
    /\ ~oopt.lookahead
    /\ oargs.lr # 1
    /\ \E i \in 1..Len(omodel) : ~omodel[i].requires_grad
    /\ oopt.param_groups[1].params # <<>>
    /\ oopt.param_groups[2].params # <<>>
====
